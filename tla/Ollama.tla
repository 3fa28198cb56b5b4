------------------------------- MODULE Ollama -------------------------------
(***************************************************************************)
(* The Ollama manager (internal/compute/ollama/manager.go): it uses a      *)
(* server that answers, and otherwise spawns one and waits for it.  The    *)
(* capability's Start and a model pull call EnsureRunning, side by side;   *)
(* the mutex is held around the spawn only, not around the probes.         *)
(***************************************************************************)
EXTENDS FiniteSets

CONSTANTS Procs,    \* bound: processes at a time
          NoProc    \* nil

ASSUME OllamaAssumption == NoProc \notin Procs

VARIABLES
    proc,       \* the spawned processes
    cmd,        \* m.cmd
    other,      \* a server that is not ours answers at the host
    ens,        \* the EnsureRunning of each caller
    exiting     \* the run context is cancelled

ollamaVars == <<proc, cmd, other, ens>>

Callers == {"start", "pull"}
Alive == {"booting", "serving"}    \* and not told to stop
Ensuring == {"idle", "probe", "spawn", "wait", "ok", "failed"}

OllamaTypeOK ==
    /\ proc \in [Procs -> Alive \cup {"none", "stopping", "exited"}]
    /\ cmd \in Procs \cup {NoProc}
    /\ other \in BOOLEAN
    /\ ens \in [Callers -> Ensuring]

OllamaInit ==
    /\ proc = [p \in Procs |-> "none"]
    /\ cmd = NoProc
    /\ other \in BOOLEAN
    /\ ens = [a \in Callers |-> "idle"]

-----------------------------------------------------------------------------
\* Something answers at the host; a server that was told to stop may, too.
Answering == other \/ \E p \in Procs : proc[p] \in {"serving", "stopping"}

\* Reachable: not under a cancelled context. It may fail all the same, a
\* probe gives up after three seconds.
Reached == Answering /\ ~exiting

Goes(a, e) == ens' = [ens EXCEPT ![a] = e]

\* The first probe. A failure leads on to a spawn, unless that is not allowed.
Probe(a) ==
    /\ ens[a] = "probe"
    /\ \/ Reached /\ Goes(a, "ok")
       \/ Goes(a, "spawn")
       \/ Goes(a, "failed")
    /\ UNCHANGED <<proc, cmd, other>>

\* Under the mutex: with no process of ours, one is started.
Spawn(a, p) ==
    /\ ens[a] = "spawn" /\ cmd = NoProc /\ proc[p] = "none"
    /\ proc' = [proc EXCEPT ![p] = "booting"]
    /\ cmd' = p
    /\ Goes(a, "wait")
    /\ UNCHANGED other

\* There is a process, or the binary is not found or does not start.
NoSpawn(a) ==
    /\ ens[a] = "spawn"
    /\ Goes(a, IF cmd = NoProc THEN "failed" ELSE "wait")
    /\ UNCHANGED <<proc, cmd, other>>

\* The wait-ready loop.
WaitReady(a) ==
    /\ ens[a] = "wait"
    /\ \/ Reached /\ Goes(a, "ok")
       \/ Goes(a, "failed")
    /\ UNCHANGED <<proc, cmd, other>>

\* EnsureRunning, but for what becomes of its result.
EnsureSteps(a) == Probe(a) \/ NoSpawn(a) \/ WaitReady(a)

\* Stop: what cmd points to is told to stop, and not waited for.
managerStop ==
    /\ proc' = [p \in Procs |-> IF p = cmd /\ proc[p] \in Alive THEN "stopping"
                                                               ELSE proc[p]]
    /\ cmd' = NoProc
    /\ UNCHANGED other

-----------------------------------------------------------------------------
\* The process listens, which one process at a time can.
Serve(p) ==
    /\ proc[p] = "booting" /\ ~Answering
    /\ proc' = [proc EXCEPT ![p] = "serving"]
    /\ UNCHANGED <<cmd, other, ens>>

Exit(p) ==
    /\ proc[p] \in Alive \cup {"stopping"}
    /\ proc' = [proc EXCEPT ![p] = "exited"]
    /\ UNCHANGED <<cmd, other, ens>>

\* A mutant: the waiter clears whatever cmd points to.
ReapAny(p) ==
    /\ proc[p] = "exited"
    /\ proc' = [proc EXCEPT ![p] = "none"]
    /\ cmd' = NoProc
    /\ UNCHANGED <<other, ens>>

\* The goroutine that waits for the process clears cmd, if it is still its.
Reap(p) ==
    /\ proc[p] = "exited"
    /\ proc' = [proc EXCEPT ![p] = "none"]
    /\ cmd' = IF cmd = p THEN NoProc ELSE cmd
    /\ UNCHANGED <<other, ens>>

\* The user starts or stops a server of their own.
OtherServer ==
    /\ other' = ~other
    /\ other' => ~Answering
    /\ UNCHANGED <<proc, cmd, ens>>
=============================================================================
