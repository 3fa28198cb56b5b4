------------------------------ MODULE Compute ------------------------------
(***************************************************************************)
(* The compute capability (internal/compute) as the node drives it, with   *)
(* the Ollama manager below it and the Bonjour advertisement that shows    *)
(* its model.  The reconciler starts and stops the capability, teardown    *)
(* stops it beside a Reconcile that is under way, a model pull makes sure  *)
(* of a server on its own account, and health checks and generations       *)
(* refresh the model at any time.                                          *)
(***************************************************************************)
EXTENDS Ollama, Bonjour

VARIABLES
    enabled,     \* capabilities.compute
    capRunning,  \* the node's capRunning["compute"]
    started,     \* c.started
    looking,     \* a health check or generation is past its started check
    torn,        \* teardown has stopped the capabilities
    late,        \* history: looking, when the capability was last stopped
    stray        \* history: processes of a Start that failed, and of pulls

capVars == <<enabled, capRunning, started, looking, torn, late, stray>>
vars == <<ollamaVars, exiting, bonjourVars, model, capVars>>

TypeOK ==
    /\ OllamaTypeOK /\ BonjourTypeOK
    /\ enabled \in BOOLEAN /\ capRunning \in BOOLEAN /\ started \in BOOLEAN
    /\ looking \in BOOLEAN /\ exiting \in BOOLEAN /\ torn \in BOOLEAN
    /\ late \in BOOLEAN /\ stray \subseteq Procs

Init ==
    /\ OllamaInit /\ BonjourInit
    /\ enabled \in BOOLEAN /\ capRunning = FALSE /\ started = FALSE
    /\ looking = FALSE /\ exiting = FALSE /\ torn = FALSE
    /\ late = FALSE /\ stray = {}

-----------------------------------------------------------------------------
(***************************************************************************)
(* Start and Stop, and who calls them.                                     *)
(***************************************************************************)
Start ==
    /\ ens["start"] = "idle" /\ enabled /\ ~capRunning
    /\ Goes("start", "probe")
    /\ UNCHANGED <<proc, cmd, other, exiting, bonjourVars, model, capVars>>

\* A process that was spawned is left to itself.
StartFails ==
    /\ ens["start"] = "failed"
    /\ Goes("start", "idle")
    /\ stray' = stray \cup ({cmd} \ {NoProc})
    /\ UNCHANGED <<proc, cmd, other, exiting, bonjourVars, model, enabled,
                   capRunning, started, looking, torn, late>>

\* A server that has no model yet, or does not list them, is no failure.
StartSucceeds ==
    /\ ens["start"] = "ok"
    /\ Goes("start", "idle")
    /\ started' = TRUE /\ capRunning' = TRUE
    /\ model' \in Models \cup {NoModel}
    /\ late' = FALSE
    /\ UNCHANGED <<proc, cmd, other, exiting, bonjourVars, enabled, looking,
                   torn, stray>>

\* A mutant: the model outlives the capability.
StopKeepsModel ==
    /\ managerStop
    /\ capRunning' = FALSE /\ started' = FALSE /\ UNCHANGED model
    /\ late' = looking
    /\ UNCHANGED <<ens, bonjourVars, enabled, looking, stray>>

Stop ==
    /\ managerStop
    /\ capRunning' = FALSE /\ started' = FALSE /\ model' = NoModel
    /\ late' = looking
    /\ UNCHANGED <<ens, bonjourVars, enabled, looking, stray>>

\* Reconcile, which is not in the middle of a Start.
ReconcileStops ==
    /\ ens["start"] = "idle" /\ ~enabled /\ capRunning
    /\ Stop
    /\ UNCHANGED <<exiting, torn>>

\* Run's teardown stops what runs, without reconcileMu.
Teardown ==
    /\ exiting /\ ~torn /\ torn' = TRUE
    /\ \/ capRunning /\ Stop
       \/ ~capRunning /\ UNCHANGED <<ollamaVars, bonjourVars, model, enabled,
                                     capRunning, started, looking, late, stray>>
    /\ UNCHANGED exiting

Toggle ==
    /\ enabled' = ~enabled
    /\ UNCHANGED <<ollamaVars, exiting, bonjourVars, model, capRunning, started,
                   looking, torn, late, stray>>

Shutdown ==
    /\ ~exiting /\ exiting' = TRUE
    /\ UNCHANGED <<ollamaVars, bonjourVars, model, capVars>>

-----------------------------------------------------------------------------
(***************************************************************************)
(* Those who refresh the model.                                            *)
(***************************************************************************)
\* Healthy, and StreamGenerateModel while there is no model: the mutex is
\* released between the started check and the write.
Look ==
    /\ started /\ ~looking /\ looking' = TRUE
    /\ UNCHANGED <<ollamaVars, exiting, bonjourVars, model, enabled, capRunning,
                   started, torn, late, stray>>

LookWrites ==
    /\ looking /\ looking' = FALSE
    /\ Answering /\ model' \in Models
    /\ UNCHANGED <<ollamaVars, exiting, bonjourVars, enabled, capRunning, started,
                   torn, late, stray>>

LookFails ==
    /\ looking /\ looking' = FALSE
    /\ UNCHANGED <<ollamaVars, exiting, bonjourVars, model, enabled, capRunning,
                   started, torn, late, stray>>

-----------------------------------------------------------------------------
(***************************************************************************)
(* StartPull: one pull at a time, in a goroutine.                          *)
(***************************************************************************)
StartPull ==
    /\ enabled /\ ens["pull"] = "idle"
    /\ Goes("pull", "probe")
    /\ UNCHANGED <<proc, cmd, other, exiting, bonjourVars, model, capVars>>

\* The pull is done, or failed.
PullEnds ==
    /\ ens["pull"] \in {"ok", "failed"}
    /\ Goes("pull", "idle")
    /\ UNCHANGED <<proc, cmd, other, exiting, bonjourVars, model, capVars>>

Ensure(a) ==
    /\ \/ EnsureSteps(a) /\ UNCHANGED stray
       \/ \E p \in Procs : /\ Spawn(a, p)
                           /\ stray' = IF a = "pull" THEN stray \cup {p} ELSE stray
    /\ UNCHANGED <<exiting, bonjourVars, model, enabled, capRunning, started,
                   looking, torn, late>>

Processes ==
    /\ \/ (\E p \in Procs : Serve(p) \/ Exit(p)) /\ UNCHANGED stray
       \/ \E p \in Procs : Reap(p) /\ stray' = stray \ {p}
       \/ OtherServer /\ UNCHANGED stray
    /\ UNCHANGED <<exiting, bonjourVars, model, enabled, capRunning, started,
                   looking, torn, late>>

Advertises ==
    /\ LanStart \/ LanStop \/ Watch \/ WatcherReturns \/ ToggleLan
    /\ UNCHANGED <<ollamaVars, exiting, capVars>>

Next ==
    \/ Start \/ StartFails \/ StartSucceeds \/ ReconcileStops \/ Teardown
    \/ Toggle \/ Shutdown \/ Look \/ LookWrites \/ LookFails
    \/ StartPull \/ PullEnds \/ (\E a \in Callers : Ensure(a))
    \/ Processes \/ Advertises

Spec == Init /\ [][Next]_vars

-----------------------------------------------------------------------------
(***************************************************************************)
(* No spawned server is lost sight of: one that was not told to stop is    *)
(* the one Stop would tell, although processes exit and are replaced       *)
(* behind the manager's back; and while the capability is down there is    *)
(* none but what a failed Start or a pull left (EnsureRunning, Stop).      *)
(***************************************************************************)
ServersAccounted ==
    \A p \in Procs : proc[p] \in Alive =>
        /\ cmd = p
        /\ capRunning \/ ens["start"] # "idle" \/ p \in stray

(***************************************************************************)
(* A capability that is stopped has no model to advertise, unless a health *)
(* check or a generation was between its started check and its write when  *)
(* the stop came (Stop, Healthy, StreamGenerateModel).                     *)
(***************************************************************************)
NoModelWhenStopped == ~started /\ model # NoModel => late

(***************************************************************************)
(* Nothing is advertised once the LAN server is stopped, whatever tick the *)
(* watcher had taken by then.                                              *)
(***************************************************************************)
AdvertWithdrawn == ~server => advert = NoTXT
=============================================================================
