# A TLA+ model of onesilo-node

onesilo-node runs on a person's machine and lends its local models and
memories to their own apps: over the LAN to paired devices, and from anywhere
through a tunnel that is registered with the One Silo control plane. It is one
Go process with several goroutines, an admin API that changes its configuration
while it runs, and half a dozen small files that must survive a crash.

What goes wrong in such a program is seldom one function. It is a token that is
refreshed while someone signs out, a tunnel that changes its URL while a
registration is in flight, a confirmation that lands between two locks. The
modules here follow those paths with every interleaving, and the theorems say
which of the properties hold whatever the number of devices, keys or apps.

## 1. The system

### Components

| component | source (`internal/` unless noted) | state | operations |
|---|---|---|---|
| registration manager | `controlplane/heartbeat.go` | believed registration, id, backoff flags, kick channel | step, register, heartbeat, deregister, SetTunnelURL, NotifyTokenUpdated, Kick, Run |
| destinations client | `controlplane/client.go` | `device_id` file | Register, Heartbeat, Delete with their 422 fallbacks, LoadOrCreateDeviceID, SaveDeviceID |
| bearer key store | `openaiapi/keys.go`, `node/inference_key.go` | `openai_keys.json` | Mint, Revoke, MintForControlPlane, RevokeAll, Verify |
| sign-in | `controlplane/oauth.go`, `oauthflow.go`, `adminapi/controlplane_auth.go`, `cmd/onesilo-node/panel.go`, `signin.go` | `oauth.json`, cached credential, pending flow | Token, Invalidate, start, callback, disconnect, the panel's sign-in |
| reconciler | `node/node.go` | live configuration, running capabilities, tunnel slots | Reconcile, PatchConfig, the ticker, Run and its teardown |
| tunnels | `tunnel/cloudflared.go`, `managed.go` | loop, process, URL | Start, Stop, runLoop, URL callback |
| pin store | `pairing/pinstore.go` | `paired_devices.json` | Observe, Verify, LoadPinStore |
| pairing over the LAN | `pairing/handshake.go`, `verify.go`, `lanserve/pairing.go`, `router.go` | sessions, pending list | pair_hello, pair_confirm, encrypted frames, confirmation |
| log console | `logging/recorder.go`, `adminapi/logs.go` | ring, subscribers, stream cursor | Write, Subscribe, Backlog, the SSE handler |
| memory | `memory/` | `memory.db`, `memory.key` | Start, Stop, Remember, Recall, Forget |
| assertion keys | `pairing/jwks.go` | cached key set, one fetch in flight | Keys, KeysForKid, refresh |
| LAN server | `lanserve/server.go`, `router.go`, `capability.go`, `bonjour.go` | client slots, connections, generations, advertisement | Start, Stop, handleWebSocket, Handle, reconcileBonjourLocked |
| compute | `compute/`, `node/ui.go` | Ollama process, current model, a pull | EnsureRunning, Start, Stop, Healthy, StreamGenerateModel, StartPull |
| gateway, OpenAI surface | `gateway/`, `openaiapi/capability.go` | none | proxy with a key check |
| admin API and console | `adminapi/`, `adminui/` | none of its own | routes to the above |
| configuration, files, export, command line | `config/`, `fsutil/`, `siloexport/`, `cmd/` | YAML | load, validate, write, install |

### How they interact

* A config patch is stored and then reconciled; a 30 second tick reconciles
  again. Reconcile holds one lock and works from a snapshot, but asks
  capabilities about the live configuration.
* Tunnel loops push their URL into the registration manager through a callback
  that runs in the loop's own goroutine, while Reconcile pushes the URL it read.
* The registration manager is one goroutine woken by a channel of capacity one.
  It asks for a token, mints a key for the control plane before it registers
  and retires the old ones after the answer.
* The account the control plane reports in its answer is what a pairing
  assertion is bound to. Connections and the operator meet in the pin store and
  in the list of pending pairings, each with its own lock.
* Handshakes on all connections share one cache of assertion keys, which
  outlives the LAN server. Contexts form a tree of server, connection and
  generation; a fetch for the cache runs under the context of whichever
  connection leads it.
* Reconcile starts compute, which may spawn an Ollama server and wait for it; a
  model pull does the same on its own, and teardown stops what runs without
  waiting for either. The model that compute resolved shows in the Bonjour record.
* Token calls come from the manager and the gateway at any time; sign-in and
  disconnect change the credential file without the token source's lock.

### Where it is hard, and what makes each part correct

| part | hard behaviour | correct when |
|---|---|---|
| registration | a change during a request, a lost answer, a crash between mint, send and commit | one destination per machine, no change slept through, the published key always works |
| sign-in | refresh racing refresh, sign-in and disconnect; repeated callbacks | the stored refresh token is live, none is replayed, a flow is used once |
| pairing | two apps of one account, confirmation racing a handshake, failing saves | no inference without confirmation, confirmations are permanent and noticed |
| node | snapshot against live state, callbacks against Stop, shutdown against patches | what is off is down, the URL follows the tunnel, shutdown ends |
| logs | a console that opens while records are logged, or falls behind | in order, complete, gaps announced |
| memory | requests under Stop, deletion under search, key against directory | exact recall, records sealed with their directory's key, nothing lost |
| LAN server | a burst at the cap, failed upgrades, a second message before an interrupt, a restart under open connections | the count is what is held, no generation runs for nobody |
| assertion keys | a shared fetch whose leader is cancelled, rotation during a fetch, unknown kids | a known key is always found, the cache never goes back, every handshake is answered |
| compute | processes that exit or outlast their caller, a late health check, teardown beside a start | every spawned server can be stopped, what is stopped advertises nothing |

`PROJECT.json` lists every hazard at its line, with the properties aimed at it.

## 2. Modules

| module | models | uses |
|---|---|---|
| `KeyStore` | bearer keys, their scopes and rotation | |
| `KeyRotation` | abstract: make before break | |
| `Registration` | the registration loop, its client and the control plane | `KeyStore` |
| `PinStore` | trust on first use | |
| `Pairing` | handshakes, sessions, the inference gate, the operator | `PinStore` |
| `OAuth` | the grant, its refresh, sign-in and disconnect | |
| `Tunnel` | the two cloudflared loops | |
| `Node` | reconciler, callbacks, shutdown | `Tunnel` |
| `LogStream` | recorder and console | |
| `Memory` | memory capability and its database | |
| `KeySource` | the assertion key cache and its use by a handshake | |
| `LanServer` | slots, connections, frames, generations, restart of the server | `KeySource` |
| `Ollama` | the Ollama manager and its processes | |
| `Bonjour` | the LAN advertisement and its watcher | |
| `Compute` | the compute capability under Reconcile, teardown and pulls | `Ollama`, `Bonjour` |
| `PublishedKey` | the key one device has published, as an instance of `KeyRotation` (the refinement mapping) | `Registration`, `KeyRotation` |
| `RegistrationProofs`, `PairingProofs`, `OAuthProofs`, `NodeProofs`, `LogStreamProofs`, `MemoryProofs`, `LanServerProofs`, `ComputeProofs` | theorems about the module they are named after; `RegistrationProofs` also about `PublishedKey` | |
| `MCRegistration`, `MCRotation`, `MCMemory`, `MCCompute` | constants and symmetry for TLC | |

Definitions carry the names of the functions they model where TLA+ allows it,
and the map in `PROJECT.json` gives the lines of each. A definition whose
comment begins "A mutant" is not part of any specification: it is the code with
one plausible mistake, and shows that the property named with it in
`PROJECT.json` can fail.

### Registration

`pc` is where the goroutine is: `wait` is the select in `Run`, a request is
sent (`req`), answered by the control plane and handled. Everything that can run
between those points is an action: URL changes, enabling and disabling
capabilities, token expiry and pushes, key mint and revoke by the operator, a
key publishing switch, shutdown, a crash. Between two such points the goroutine
reads fields that different actors write one at a time, so one step for the
reads loses no behaviour. `wait` is the interval as a class: a heartbeat, a
retry, the ten minutes after a 402, the idle hour.

A patch changes the configuration the loop reads at once, and its kick comes at
the end of the Reconcile that follows: `owed` (history) says that one is on its
way. Every Reconcile ends with a kick, the one of the 30 second tick too
(`ReconcileKick`). The 422 retry of a heartbeat only drops its capability report,
which is payload: the two requests are one.

`device_id` can be lost. `LoadOrCreate` draws a new id when the file cannot be read
or parsed; `bonjourDeviceID` and `provisionManagedTunnel` call the same function
with no lock in common with the loop, so the id one of them drew (`minting`) may
be saved over one the loop uses (`OtherMints`, `OtherSaves`); and a start under
another `data_dir` finds neither id nor keys (`OtherDataDir`). `lost` (history)
collects the identities whose file was overwritten or left behind, and `MaxLost`
bounds them; with 0 the model is a node whose file stays readable and whose other
callers find it. The loop's own read and write of the file are one step: a save of
another caller that it overwrites leaves what a failed save leaves. A return to an
earlier `data_dir` is not modelled.

The control plane is external. It is modelled from the requests and the answers
the client distinguishes: it files a device under `Canon[id]`, which covers a
server that adopts, replaces or normalises ids, with the one assumption that a
canonical id stays as it is; it may refuse with 401, 402, 404, 422 or 5xx, drop a
destination, and its answer may be lost after it took effect. Assumed of it:
a request is handled before the client gives up on it or never, and the TTL of a
destination does not lapse while heartbeats flow. `Mixed` says whether
instances that predate the newer request fields answer with 422.

### Pairing

A session is what its connection's read loop knows: whether a handshake began,
the account its verifier was built with, the identity proved, the key, the
verified flag. `generating` holds the keys of the generations a connection
runs. `handleConfirm` takes two locks one after the other and is two steps, and so
is the operator's `Verify`. Signatures, MACs and key agreement are a free
choice of whether they check: the model shows what the node does with the outcome.
`greeted` (history) says that a `pair_hello` arrived, whatever became of it; the
choice of the key reads `started`, the latch the code sets. `HelloAccepted` needs
an account to be known, as the control plane's answer gives one before it signs
an assertion for it; verify.go compares the two and has no such test of its own.

### OAuth

`Token` holds its mutex from load to save, so a refresh is three steps with a
`holder`; the admin handlers change the file outside it. A credential is a grant
and a generation of its refresh token. The authorization server is external: it
may replace the token with each use and refuses one that was replaced.
`doubtful` marks the grants where an answer was lost, not saved, or lost to a
crash, since rotation then cannot be made safe by any client. `forgotten` holds
the grants a disconnect removed. A flow is `spent` when it was taken, replaced,
cleared or is older than its ten minutes. `newest` (history) is the last sign-in
that was stored, or none after a DELETE, and `undone` those that a refresh of
another grant, under way when they were stored, then saved over.

### Node and Tunnel

A Reconcile is a sequence of steps under `rc`: its snapshot, the capabilities,
each tunnel, the URL. Patches that are stored and wait for the lock are
counted in `owed`. The callback of a tunnel loop is two steps, reading the mode
and pushing the URL, since Reconcile runs between them. Shutdown is `main`.
A capability's Start and Stop are one step each; `memory` stands for those that
are enabled by the configuration and `lan` for the one that is derived from it.

### LogStream

A record is its sequence number, a notice carries the count of drops it
confesses and the number of the record it precedes. The handler subscribes,
reads the backlog, sends it, and then forwards the channel, skipping what it
already sent; records can be logged between any two of these. `admitted` counts
the drops the browser was told of and `notices` (history) the notices.

### Memory

The database has one connection, so a transaction or a query is a step; a
request keeps the store it found. In `Remember` the transaction's begin and
insert are one step, since a Stop between them only makes it fail; in Stop the
clearing of the field and Close are one step, because a request that found the
store earlier can run its next query before or after. Rowids are drawn as SQLite
draws them (largest plus one), so that a deleted one is used again. Ranking is
an arbitrary choice of which hits survive the cut; `recall` also skips a hit
whose score is not positive, which the ranks and similarities it fuses do not
give for a match, and the model keeps every hit. `patched` says
whether the data directory was changed since the process began.

### LanServer and KeySource

Each connection has a handler, where it is (`conn`) and the server it came in
on. A frame is read and handled one at a time; `pair_hello` blocks the handler
until its assertion is verified, a message only starts a generation. `live` are
the connections whose context is not cancelled. A server that is stopped may
leave handlers behind, which still release their slots in its counter, while the
next server counts its own. A generation that is cancelled is over: what is left
of its goroutine writes its last frames and changes no state.

In `KeySource` a key set is the version the control plane published; it publishes
a new key beside the previous one. The mutex is held for `Keys`, `KeysForKid`, the
begin and the end of `refresh`, each a step. While a hijacked connection's
handshake is verified nobody reads from it, so a client that goes away is not
noticed; the leader's context is cancelled when its server is stopped. A
follower on the server started after it then gets the old leader's error. The
two intervals are flags that time resets at any moment.

### Ollama, Bonjour and Compute

`EnsureRunning` is a probe, a spawn under the mutex and a wait, for each of its
two callers; a probe can fail at any time and always does under a cancelled
context. A process boots, serves, is told to stop, exits, and is reaped by its
waiter; a server that is not ours may come and go. A health check or generation
that refreshes the model is two steps, with anything between them. `stray` is
what a failed Start or a pull left running: no Stop is called for those while the
capability counts as not running. Teardown does not take reconcileMu, so a Start
can end after it.

The advertisement is reconciled under the capability's mutex by Start and by the
watcher; Stop cancels the watcher after it releases the mutex, so a doomed one can
still take a tick. What its call of `LoadOrCreateDeviceID` does to the file is in
`Registration`; here it is only whether an id could be had.

## 3. Runs

| run | module, cfg | bounds | checks |
|---|---|---|---|
| `registration` | `MCRegistration` | 2 URLs, 1 id, no keys, instances of both versions | `BeliefConsistent`, `NoLostWakeup`, `DestinationKnown`, `Converges`, `Withdraws` |
| `rotation` | `MCRotation` | 2 keys (symmetric), 1 URL, 3 ids with one that is renamed, 1 lost identity, 1 restart, uniform server | `OneDestination`, `HeldKeyAccepted`, `PersonKeysKept`, `MakeBeforeBreak` (implements `KeyRotation`) |
| `pairing` | `Pairing` | 2 connections, 2 apps, 1 account, 1 restart | `ConfirmedInference`, `OneKeyPerAccount`, `AwaitingListed`, `ConfirmationKept`, `NoDowngrade`, `ConfirmationPickedUp` |
| `oauth` | `OAuth` | 2 callers, 2 flows and the panel, 2 rotations | `StoredTokenLive`, `NoTokenReuse`, `CacheAgrees`, `DisconnectForgets`, `FlowSingleUse` |
| `node` | `Node` | all four tunnel modes, 1 URL per tunnel, 1 waiting patch | `ProcessesKept`, `SettledOnConfig`, `URLFollows`, `Exits` |
| `logs` | `LogStream` | ring of 3, channel of 2, 12 records | `BacklogIsTail`, `ShownOnce`, `GapAnnounced` |
| `memory` | `MCMemory` | 2 directories, 2 memories, 2 texts, 2 requests | `RecallExact`, `EmbeddingsOwned`, `RememberedKept`, `KeyedByDataDir` |
| `lan` | `LanServer` | 2 connections, 1 slot, 2 generations, 2 servers, 3 key sets | `SlotsKept`, `NoOrphans`, `KnownKid`, `NoFetchStorm`, `KeysNotRegress`, `VerificationEnds` |
| `compute` | `MCCompute` | 2 processes (symmetric) and one of the user's, 1 model | `ServersAccounted`, `NoModelWhenStopped`, `AdvertWithdrawn` |

Each property is stated above its definition. Why the bounds are enough: the
hazards need two of something that races (URLs, keys, connections, callers,
requests) and one restart, and the run aimed at it has those. The ring wraps four times in
12 records. Two keys allow one rotation and its failure. In `rotation` the
constraint `Bounded` explores ids and keys apart: all ids without a key published,
and keys under one id; capabilities stay on there and tokens do not expire, which
`registration` has. Three ids are one the control plane renames, the one it is
renamed to, and one of another identity. The theorems have no such bounds. In `node`
the memory capability is off in the configuration (`Memory = {FALSE}`), so
there it is the LAN server that is started and stopped as the mode changes;
a second capability adds states and no new interleaving, since Reconcile
handles them one after the other. In `lan` two connections compete for one slot,
so that the count goes over the cap, and with two servers one of them can wait
for a fetch that a connection of the stopped server leads; three key sets are
needed for a key to be withdrawn. In `compute` two processes let one exit
after the other was spawned in its place.

Each module has a `TypeOK`, which TLC finds true on the instance of its run; the
runs list only what says more. It is proved for every module with a proofs
module, and the other invariants rest on it.

Deadlock is checked except in the registration runs, where the loop ends for
good after the last allowed restart, and in `lan`, where nothing is left to do
once the last server is stopped.

### Fairness

* `Registration!FairSpec`: the goroutine, the control plane and timers keep
  going (weak). Leaving on shutdown is strong, because Go's select picks at
  random among the ready cases and cannot pass one over for ever. Registering
  is strong, because a data directory that cannot be written is
  not so for ever; without that the code retries for ever.
* `Pairing!FairSpec`: an app that was told to wait sends its message again.
  Nothing is assumed of the operator or of the handshake.
* `Node!FairSpec`: strong for the callers that wait for reconcileMu and for the
  tick and the end of Run, because Go's mutex and select starve nobody; weak
  for a Reconcile that runs, callbacks, loops and teardown.

* `LanServer!FairSpec`: the goroutine of each connection keeps running (weak):
  it enters, handles the frame it read, is answered by a fetch or by the ten
  second timeout of its client, and leaves once its context is cancelled. Clients
  need not come, go or send anything.

### Disagreements between the code and its comments

Three runs are expected to fail, and do.

* `fallback_key`: an instance that answers 422 makes the client register without
  the new key, and the old one is retired all the same. `HeldKeyAccepted` holds
  when no instance does so (`rotation`, and `HeldKeyCorrect` for any constants).
* `safety_number`: an identity refused because the safety number changed is not
  recorded, so the confirmation the comment asks for is refused too.
* `silent_gap`: a drop notice borrows the number of the record it precedes, and
  the stream then skips that record as one it has delivered. The gap is one line
  longer than the notice says. `GapAnnounced` is what holds: one record per notice.

Met while modelling, without a run of their own:

* a 401 for a request sent before a token push arrives after it and blocks the
  loop until the next push, so that the push is slept through, and a change of
  `auth_mode` does not unblock it (`NoLostWakeup` and `Converges` except just
  this; heartbeat.go:133-134 reads as if a push always unblocked it);
* the tick's kick makes the ten minute and one minute waits of the loop
  ineffective;
* a `device_id` that cannot be parsed, a race of the three callers of
  `LoadOrCreateDeviceID` or a change of `data_dir` leaves a second destination
  until its TTL, although the id is said to be stable across restarts
  (client.go:222-223; `OneDestination` allows the identities in `lost` and no
  other);
* a refresh of the previous grant that is under way when a sign-in is saved
  saves that grant over it, Invalidate then drops a cache that is loaded from
  that file again, and the sign-in is lost although it was to be usable
  immediately (node.go:895-896; `CacheAgrees` allows those in `undone`);
* a sign-in of the terminal panel over one of the console is not announced to
  the cache (`overtaken`);
* an embedding computed for a memory that is forgotten meanwhile stays
  (`EmbeddingsOwned` names exactly those);
* a refresh that overlaps a disconnect stores the grant again after it was
  removed, and the node is signed in after the answer (`DisconnectForgets` says
  that nothing else brings it back);
* after a change of `data_dir` the memory capability keeps the key of the old
  directory and opens the database of the new one, whose records cannot be read
  after a restart (`KeyedByDataDir` allows that case only);
* a health check that overlaps a stop leaves its model advertised
  (`NoModelWhenStopped`);
* several handshakes with an unknown kid can each force a refresh before the
  first is recorded (`NoFetchStorm` gives the bound);
* a message replaces the cancel function of the generation before it, which an
  interrupt then cannot reach (`NoOrphans`);
* a Start whose wait fails, a pull, or a Start that ends after teardown leaves
  the server it spawned running, and a Start soon after a Stop may be answered
  by the server that is on its way out, so that the capability counts as running
  with none (`ServersAccounted` says what is kept in sight);
* the Bonjour record keeps the first device id it read, also when the control
  plane has the node adopt another (`bonjourDeviceID`'s comment says the id
  never changes).

## 4. Proofs

Every safety invariant and every action property of the passing runs, and the
refinement `MakeBeforeBreak`, is a theorem: it holds for every set of URLs, ids,
keys, accounts, apps, callers, flows, connections, generations, processes,
memories and directories, every capacity of the ring and of a console's channel,
and any bound on restarts, lost identities, patches, records and versions. `HeldKeyCorrect` and
`RotationCorrect` have the hypothesis `Mixed = FALSE`; `fallback_key` shows that
it is needed. Nothing else is assumed but the ASSUMEs of the modules: sentinels
are not members of their sets, bounds are natural numbers, `Canon` is idempotent,
and

* `IsFiniteSet(Conns)` (`LanServer`): handlers and forced refreshes are counted;
* `MaxVersion` is at least 1 (`KeySource`): the control plane has published keys;
* `IsFiniteSet(Ids)`, `Silos # {}` (`Memory`): a rowid is one more than the
  greatest in use, and a request names a silo (`[silo: Silos, ...]` has members);
* `Device \in DeviceIds` (`PublishedKey`): the device looked at is one.

Each theorem rests on an inductive invariant. The property alone is not
inductive in most cases; the right column says what has to be known besides.

| theorem | inductive invariant | why it is needed |
|---|---|---|
| Registration `TypeCorrect` | `TypeOK` | each request carries an id and a reply of its kind |
| `BeliefCorrect` | `BeliefInv`, `ReqInv` | a request under way says what the beliefs were when it was sent: handling its answer relies on it |
| `OneDestinationCorrect` | `IdInv` | the id in memory, in a request and in the file are filed under one identity, unless that one is lost; what the control plane has for the others is filed under it |
| `DestinationCorrect` | `DestInv` | between the answer and its handling the destination is the request's |
| `WakeCorrect` | `WakeInv` | each change while a request is under way leaves a kick, or a Reconcile that owes one |
| `HeldKeyCorrect` | `KeyInv`, `HoldInv` | keys to be retired were superseded by a key the control plane will hold once the request is answered |
| `PersonKeysCorrect` | `KeyInv` | ids to be retired are the control plane's |
| `RotationCorrect` | `IdInv`, `KeyInv`, `HoldInv` | the refinement, step by step (below) |
| Pairing `TypeCorrect` | `TypeOK` | |
| `OneKeyCorrect` | `PinInv` | memory and file each have one key per account; a confirmed key in the file is confirmed in memory |
| `GateCorrect` | `KeyInv`, `GateInv` | whatever is marked verified, in memory, on disk or in a session, was confirmed |
| `KeptCorrect` | `PinInv` | |
| `ListCorrect` | `ListInv` | a handshake between its two locks lists what it recorded |
| `DowngradeCorrect` | `GreetInv` | a connection that was greeted has its latch set, whichever way the handshake went since |
| OAuth `TypeCorrect` | `TypeOK` | |
| `StoredCorrect`, `ReuseCorrect` | `FlowInv`, `LiveInv` | what is cached is honoured or being replaced by the one caller that holds the mutex; a flow not yet exchanged has no credential anywhere |
| `CacheCorrect` | `CacheInv` | cache and file part only while an `Invalidate` is still to come, and the file and the last sign-in only by a refresh that was under way or by the panel |
| `ForgetCorrect` | `ForgetInv` | a forgotten grant is not cached either, so that no refresh can store it |
| `SingleUseCorrect` | `FlowInv` | the flow in the slot is not spent, unless it is too old |
| LanServer `TypeCorrect` | `TypeOK` | |
| `SlotsCorrect` | `HandlerInv`, `SlotInv` | the counter of each server is the number of its handlers, also of a server that was stopped |
| `OrphansCorrect` | `ContextInv` | a context that is not cancelled is that of an open connection of the server that is up, and the latest generation of a connection is the one its session tracks |
| `RegressCorrect` | `LeadInv` | one connection leads the fetch, and its answer is no older than the cache |
| `KnownKidCorrect` | `LeadInv`, `KidInv` | while a key is sure to be cached, what `Keys` read before its refresh has it, too |
| `StormCorrect` | `StormInv` | forced refreshes so far and connections about to force one are together no more than the connections |
| Compute `ServersCorrect` | itself with `TypeOK` | |
| `ModelCorrect` | `ModelInv` | the checks under way that are past their test of `started` |
| `AdvertCorrect` | itself with `TypeOK` | |
| Memory `TypeCorrect` | `RowidInv`, `RequestInv` | rowids stay below the number of ids ever drawn, so that `NextRowid` is in range |
| `KeyedCorrect` | `KeyInv` | the open store has its own key, or `data_dir` was changed since |
| `RecallCorrect` | `MirrorInv`, `RecallInv` | the mirror has every row and rowids are not shared, although they are reused; what matched is still to be fetched or was |
| `EmbeddingsCorrect`, `RememberedCorrect` | `EmbedInv` | a memory whose embedding is being computed is stored, unless it was deleted meanwhile |
| Node `TypeCorrect` | `TypeOK` | |
| `ProcessesCorrect` | `ProcInv`, `SlotInv`, `ExitInv` | a loop belongs to the manager in the slot or to the one a Reconcile waits for; after `stopTunnel` only the latter is left |
| `SettledCorrect` | `TodoInv`, `FreshInv` | with no patch waiting, the Reconcile under way has the live configuration, and what it has passed agrees with it |
| LogStream `TypeCorrect` | `TypeOK` with the three below | the drops that wait are bounded by the records logged |
| `BacklogCorrect` | `RingInv` | each slot of the ring by its distance from the cursor |
| `ShownCorrect` | `ChannelInv`, `OrderInv` | the channel is in order, and what was sent comes before what is left of the backlog |
| `GapCorrect` | `AccountInv`, `MissInv` | what is missing is paid for by the drops told, one record for each notice sent or still in the channel, and the drops not announced yet |

Each step lemma has one case per action of `Next`, or one for all actions that
leave what the invariant speaks of alone.

`AccountInv` needs the sum of the notices in the channel. A recursive sum could
not be reasoned about (a proof about it is by induction over the channel), so the
invariant says that there is a function of partial sums `acc`, and each action
gives the next one.

**The refinement.** `RotationCorrect` maps the keys the store accepts, those the
operator revoked and the one the control plane holds for a device to the three
variables of `KeyRotation`. A mint is an `Offer` (ids are drawn once, `KeyInv`);
a registration that the control plane takes is a `HandOver` of a key that is
accepted (`KeyInv`), for the device it is filed under; a DELETE and the TTL are
`Forget`, and so is the loss of the device's identity, whose key counts as
forgotten there and then (a mint may come with it, so `Offer` may forget too); a
start under another `data_dir` is `StartOver`; the commit after the answer is a
`Retire` of keys that are not held, because the only device with a key is the
one the request is filed under (`IdInv`) and it holds the key of the request
(`HoldInv`), which is not among those to be retired (`KeyInv`); the admin API's
revoke is `OperatorRevokes`. Every other step leaves all three as they are.

Model-checked only: liveness (`Converges`, `Withdraws`, `ConfirmationPickedUp`,
`URLFollows`, `Exits`, `VerificationEnds`), which the prover does not do.

## 5. Not modelled

Cryptography, formats, HTTP routing, rendering, configuration parsing and the
command line: payload or pure I/O. `PROJECT.json` gives the reason for each
component. Of what is modelled, left out: that the advertisement catches up with
the configuration within a tick (it does so by the watcher alone, and an
announcement may fail for ever), a pull's progress and outcome, which only the
console shows, and the persistence of a patched configuration.

The inference gateway and the OpenAI surface keep no state: what they read is
the token (`OAuth`), the key set (`KeyStore`) and the model (`Compute`).

## 6. Plan

1. An abstract specification of what the token source promises (a register that
   holds the newest credential), with `OAuth` shown to implement it.
2. Facts the liveness properties rest on that are safety (what a waiting
   handshake, console or Reconcile can count on), stated and proved where they
   say more than the invariants do.
