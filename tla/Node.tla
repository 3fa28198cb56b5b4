-------------------------------- MODULE Node --------------------------------
(***************************************************************************)
(* The node's reconciler (internal/node/node.go): config patches and a 30  *)
(* second ticker bring capabilities, the tunnels and the URL given to the  *)
(* registration manager in line with the configuration, and shutdown takes *)
(* everything down.                                                        *)
(*                                                                         *)
(* Reconcile holds reconcileMu and works from a snapshot of the            *)
(* configuration, but capabilities look at the live one; the tunnel loops  *)
(* push their URL at any time.  A capability's Start and Stop are one step *)
(* each.                                                                   *)
(***************************************************************************)
EXTENDS Naturals, FiniteSets, Tunnel

CONSTANTS ExternalURL,  \* tunnel.external_url
          Memory,       \* bound: what capabilities.memory may be set to
          MaxOwed       \* bound: admin calls waiting for their Reconcile

ASSUME NodeAssumption ==
    /\ NoURL \notin TunnelURLs \cup {ExternalURL}
    /\ ExternalURL \notin TunnelURLs
    /\ ManagedURL \notin QuickURLs
    /\ Memory \subseteq BOOLEAN
    /\ MaxOwed \in Nat

VARIABLES
    mode, memory,  \* the live configuration: tunnel.mode, capabilities.memory
    capRunning,    \* n.capRunning: the capabilities that are up
    slot,          \* the managers n.tunnelMgr and n.managedMgr point to
    regURL,        \* the registration manager's tunnelURL
    rc,            \* the Reconcile that holds reconcileMu
    owed,          \* patches that are stored and wait for reconcileMu
    main,          \* Run
    stopping       \* the run context is cancelled

nodeVars == <<mode, memory, capRunning, slot, regURL, rc, owed, main,
              stopping>>
vars == <<nodeVars, tunnelVars>>

Modes == {"off", "quick", "managed", "external"}
Caps  == {"memory", "lan"}
URLs  == TunnelURLs \cup {ExternalURL, NoURL}

\* Enabled, on the live configuration: the LAN server carries the HTTP APIs,
\* so it is up whenever something needs it.
Enabled(c) == memory \/ (c = "lan" /\ mode # "off")

Steps == {"idle", "caps", "quick", "managed", "url", "set"}
NoReconcile == [by |-> "nobody", at |-> "idle", todo |-> {}, snap |-> "off",
                any |-> FALSE, stopped |-> FALSE, url |-> NoURL]

TypeOK ==
    /\ TunnelTypeOK
    /\ mode \in Modes /\ memory \in BOOLEAN
    /\ capRunning \subseteq Caps
    /\ slot \subseteq Kinds
    /\ regURL \in URLs
    /\ rc \in [by: {"nobody", "tick", "patch"}, at: Steps, todo: SUBSET Caps,
               snap: Modes, any: BOOLEAN, stopped: BOOLEAN, url: URLs]
    /\ rc.by = "nobody" <=> rc.at = "idle"
    /\ rc.stopped => rc.at \in Kinds /\ rc.at \notin slot
    /\ owed \in 0..MaxOwed
    /\ main \in {"starting", "running", "stopCaps", "stopTunnel", "stopAdmin",
                "exited", "abandoned"}
    /\ stopping \in BOOLEAN /\ (main \notin {"starting", "running"} => stopping)

Init ==
    /\ TunnelInit
    /\ mode \in Modes /\ memory \in Memory
    /\ capRunning = {} /\ slot = {}
    /\ regURL = NoURL
    /\ rc = NoReconcile /\ owed = 0
    /\ main = "starting" /\ stopping = FALSE

-----------------------------------------------------------------------------
(***************************************************************************)
(* ApplyConfigPatch and Reconcile.                                         *)
(***************************************************************************)
\* The merged configuration is valid and saved, and becomes the live one.
\* The admin server takes requests until it is stopped.
Patch(m, b) ==
    /\ main \in {"starting", "running", "stopCaps", "stopTunnel"} /\ owed < MaxOwed
    /\ mode' = m /\ memory' = b
    /\ owed' = owed + 1
    /\ UNCHANGED <<capRunning, slot, regURL, rc, main, stopping, tunnelVars>>

Begin(by) ==
    /\ rc = NoReconcile
    /\ rc' = [NoReconcile EXCEPT !.by = by, !.at = "caps", !.todo = Caps,
                                 !.snap = mode]
    /\ UNCHANGED <<mode, memory, capRunning, slot, regURL, stopping, tunnelVars>>

\* A mutant: a Reconcile under way is taken for this one.
PatchCoalesces ==
    /\ owed > 0 /\ owed' = owed - 1
    /\ IF rc = NoReconcile THEN Begin("patch") /\ UNCHANGED main
                           ELSE UNCHANGED <<mode, memory, capRunning, slot, regURL,
                                            rc, main, stopping, tunnelVars>>

PatchReconciles ==
    /\ owed > 0 /\ owed' = owed - 1
    /\ Begin("patch") /\ UNCHANGED main

\* Run reconciles once before its loop. The select there prefers no case: it
\* may still tick after the cancellation.
Tick ==
    /\ main \in {"starting", "running"} /\ main' = "running"
    /\ Begin("tick") /\ UNCHANGED owed

\* One capability, the LAN server last. A start that fails is retried by a
\* later Reconcile; a stop that reports an error has stopped all the same.
ReconcileCap(c) ==
    /\ rc.at = "caps" /\ c \in rc.todo
    /\ c = "lan" => rc.todo = {"lan"}
    /\ rc' = [rc EXCEPT !.todo = @ \ {c}]
    /\ \/ /\ Enabled(c) /\ c \notin capRunning
          /\ capRunning' = capRunning \cup {c}
       \/ /\ Enabled(c)
          /\ UNCHANGED capRunning
       \/ /\ ~Enabled(c)
          /\ capRunning' = capRunning \ {c}
    /\ UNCHANGED <<mode, memory, slot, regURL, owed, main, stopping, tunnelVars>>

CapsReconciled ==
    /\ rc.at = "caps" /\ rc.todo = {}
    /\ rc' = [rc EXCEPT !.at = "quick", !.any = \E c \in Caps : Enabled(c)]
    /\ UNCHANGED <<mode, memory, capRunning, slot, regURL, owed, main,
                   stopping, tunnelVars>>

Want(k) == rc.snap = k /\ rc.any
After(k) == IF k = "quick" THEN "managed" ELSE "url"
Passes(k) == rc' = [rc EXCEPT !.at = After(k), !.stopped = FALSE]
NodeSame == UNCHANGED <<mode, memory, capRunning, regURL, owed, main, stopping>>

\* The manager is wanted and not there: started, unless cloudflared is
\* missing.
TunnelStart(k) ==
    /\ rc.at = k /\ Want(k) /\ k \notin slot /\ Passes(k)
    /\ \/ /\ slot' = slot \cup {k}
          /\ Start(k, ~stopping)
       \/ UNCHANGED <<slot, loop, cancelled>>
    /\ NodeSame /\ UNCHANGED <<url, cb, procs>>

TunnelKeep(k) ==
    /\ rc.at = k /\ ~rc.stopped /\ (Want(k) <=> k \in slot)
    /\ Passes(k)
    /\ NodeSame /\ UNCHANGED <<slot, tunnelVars>>

\* The slot is emptied and the manager told to stop.
TunnelStop(k) ==
    /\ rc.at = k /\ ~Want(k) /\ k \in slot
    /\ slot' = slot \ {k}
    /\ Cancel({k})
    /\ rc' = [rc EXCEPT !.stopped = TRUE]
    /\ NodeSame /\ UNCHANGED <<loop, url, cb, procs>>

\* A mutant: Stop returns before the loop has.
TunnelStoppedAtOnce(k) ==
    /\ rc.at = k /\ rc.stopped
    /\ Passes(k)
    /\ NodeSame /\ UNCHANGED <<slot, tunnelVars>>

\* Stop waits for the loop, and so for its callbacks.
TunnelStopped(k) ==
    /\ rc.at = k /\ rc.stopped /\ Done(k)
    /\ Passes(k)
    /\ NodeSame /\ UNCHANGED <<slot, tunnelVars>>

\* tunnelURL, managedURL
URL(k) == IF k \in slot THEN url[k] ELSE NoURL

\* The URL the registration manager should have.
DesiredURL(m) == CASE m \in Kinds -> URL(m)
                   [] m = "external" -> ExternalURL
                   [] OTHER -> NoURL

ReconcileURL ==
    /\ rc.at = "url"
    /\ rc' = [rc EXCEPT !.at = "set", !.url = DesiredURL(rc.snap)]
    /\ NodeSame /\ UNCHANGED <<slot, tunnelVars>>

\* A mutant: only a URL is handed on, never its absence.
ReconcileSetURLOnly ==
    /\ rc.at = "set"
    /\ regURL' = IF rc.url = NoURL THEN regURL ELSE rc.url
    /\ rc' = NoReconcile
    /\ UNCHANGED <<mode, memory, capRunning, slot, owed, main, stopping,
                   tunnelVars>>

\* SetTunnelURL, Kick, and the mutex is released.
ReconcileSetURL ==
    /\ rc.at = "set"
    /\ regURL' = rc.url
    /\ rc' = NoReconcile
    /\ UNCHANGED <<mode, memory, capRunning, slot, owed, main, stopping,
                   tunnelVars>>

-----------------------------------------------------------------------------
(***************************************************************************)
(* The managers' callbacks, onTunnelURLChange and onManagedURLChange.      *)
(***************************************************************************)
\* Only the configured mode's manager feeds the registration manager.
CallbackMode(k) ==
    /\ cb[k] = "deciding"
    /\ cb' = [cb EXCEPT ![k] = IF mode = k THEN "pushing" ELSE "none"]
    /\ UNCHANGED <<nodeVars, loop, cancelled, url, procs>>

\* A mutant: the callback takes reconcileMu.
CallbackPushLocked(k) ==
    /\ cb[k] = "pushing" /\ rc = NoReconcile
    /\ cb' = [cb EXCEPT ![k] = "none"]
    /\ regURL' = url[k]
    /\ UNCHANGED <<mode, memory, capRunning, slot, rc, owed, main, stopping,
                   loop, cancelled, url, procs>>

CallbackPush(k) ==
    /\ cb[k] = "pushing"
    /\ cb' = [cb EXCEPT ![k] = "none"]
    /\ regURL' = url[k]
    /\ UNCHANGED <<mode, memory, capRunning, slot, rc, owed, main, stopping,
                   loop, cancelled, url, procs>>

-----------------------------------------------------------------------------
(***************************************************************************)
(* Run's teardown.                                                         *)
(***************************************************************************)
\* A signal, the admin API's shutdown, or an admin server that failed.
Shutdown ==
    /\ ~stopping
    /\ stopping' = TRUE
    /\ Cancel(Kinds)
    /\ UNCHANGED <<mode, memory, capRunning, slot, regURL, rc, owed, main,
                   loop, url, cb, procs>>

\* The loop ends, not in the middle of a tick, and the registration manager
\* has returned.
RunEnds ==
    /\ main = "running" /\ stopping /\ rc.by # "tick"
    /\ main' = "stopCaps"
    /\ UNCHANGED <<mode, memory, capRunning, slot, regURL, rc, owed, stopping,
                   tunnelVars>>

\* The capabilities are stopped without reconcileMu.
StopCaps ==
    /\ main = "stopCaps"
    /\ capRunning' = {}
    /\ main' = "stopTunnel"
    /\ UNCHANGED <<mode, memory, slot, regURL, rc, owed, stopping, tunnelVars>>

\* stopTunnel takes what the slots hold and waits for it.
StopTunnel ==
    /\ main = "stopTunnel"
    /\ \A k \in slot : Done(k)
    /\ slot' = {}
    /\ main' = "stopAdmin"
    /\ UNCHANGED <<mode, memory, capRunning, regURL, rc, owed, stopping,
                   tunnelVars>>

\* admin.Stop lets the calls under way finish ...
AdminStopped ==
    /\ main = "stopAdmin" /\ owed = 0 /\ rc = NoReconcile
    /\ main' = "exited"
    /\ UNCHANGED <<mode, memory, capRunning, slot, regURL, rc, owed, stopping,
                   tunnelVars>>

\* ... for ten seconds at most, which the capabilities' stops also use up.
AdminGivesUp ==
    /\ main = "stopAdmin" /\ ~(owed = 0 /\ rc = NoReconcile)
    /\ main' = "abandoned"
    /\ UNCHANGED <<mode, memory, capRunning, slot, regURL, rc, owed, stopping,
                   tunnelVars>>

-----------------------------------------------------------------------------
Reconciling ==
    \/ (\E c \in Caps : ReconcileCap(c)) \/ CapsReconciled
    \/ \E k \in Kinds : \/ TunnelStart(k) \/ TunnelKeep(k) \/ TunnelStop(k)
                        \/ TunnelStopped(k)
    \/ ReconcileURL \/ ReconcileSetURL

Calls(k) == CallbackMode(k) \/ CallbackPush(k)
Loop(k) == LoopRuns(k) /\ UNCHANGED nodeVars

Teardown == RunEnds \/ StopCaps \/ StopTunnel \/ AdminStopped \/ AdminGivesUp

Over == main \in {"exited", "abandoned"}

\* The process is gone, with its goroutines.
Finished == Over /\ UNCHANGED vars

Runs ==
    \/ \E m \in Modes, b \in Memory : Patch(m, b)
    \/ PatchReconciles \/ Tick \/ Reconciling
    \/ \E k \in Kinds : \/ Calls(k) \/ Loop(k)
                        \/ ProcessDies(k) /\ UNCHANGED nodeVars
    \/ Shutdown \/ Teardown

Next == (~Over /\ Runs) \/ Finished

Spec == Init /\ [][Next]_vars

\* Goroutines run, the ticker ticks, cloudflared gets ready or times out, and
\* reconcileMu is handed to those who wait for it.
FairSpec ==
    /\ Spec
    /\ SF_vars(~Over /\ PatchReconciles) /\ SF_vars(Tick) /\ WF_vars(~Over /\ Reconciling)
    /\ \A k \in Kinds : WF_vars(~Over /\ Calls(k)) /\ WF_vars(~Over /\ Loop(k))
    /\ SF_vars(RunEnds)
    /\ WF_vars(StopCaps \/ StopTunnel \/ AdminStopped \/ AdminGivesUp)

-----------------------------------------------------------------------------
\* Every patch is reconciled and nobody is reconciling.
Quiet == main = "running" /\ owed = 0 /\ rc = NoReconcile

(***************************************************************************)
(* Cloudflared processes are kept track of: a manager has at most one,     *)
(* across stops, restarts and mode switches (runLoop, Stop), and when Run  *)
(* has returned in time no process or loop is left, also when a patch was  *)
(* being reconciled at the time (teardown, Start under the run context).   *)
(***************************************************************************)
ProcessesKept ==
    /\ \A k \in Kinds : procs[k] <= 1
    /\ main = "exited" => \A k \in Kinds : procs[k] = 0 /\ Done(k)

(***************************************************************************)
(* "An unexposed node always clears it": with every patch reconciled, the  *)
(* registration manager has a URL of the mode that is configured, or none, *)
(* no tunnel of another mode is left and no capability runs that is not    *)
(* enabled, whatever a late callback or an earlier snapshot says and       *)
(* however patches and ticks overlapped (Reconcile).                       *)
(***************************************************************************)
SettledOnConfig ==
    Quiet => /\ regURL \in CASE mode \in Kinds -> URLsOf(mode) \cup {NoURL}
                             [] mode = "external" -> {ExternalURL}
                             [] OTHER -> {NoURL}
             /\ \A k \in Kinds : mode # k => procs[k] = 0
             /\ \A c \in capRunning : Enabled(c)

(***************************************************************************)
(* The registration manager ends up with the URL the tunnel settled on,    *)
(* although Reconcile may overwrite a newer URL with one it read earlier.  *)
(***************************************************************************)
URLFollows ==
    \A k \in Kinds : \A u \in URLsOf(k) \cup {NoURL} :
        <>[](mode = k /\ ~stopping /\ URL(k) = u) => <>[](regURL = u)

(***************************************************************************)
(* A node that is told to stop, stops.                                     *)
(***************************************************************************)
Exits == stopping ~> Over
=============================================================================
