------------------------------- MODULE Tunnel -------------------------------
(***************************************************************************)
(* The two tunnel managers, quick and managed (internal/tunnel): a loop    *)
(* that keeps one cloudflared process alive, publishes its URL through a   *)
(* callback and withdraws it when the process goes or the loop is told to  *)
(* stop.  They differ in where the URL comes from: scraped from the output *)
(* of every new process, or provisioned by the control plane and stable.   *)
(*                                                                         *)
(* The callback runs in the loop's goroutine: while it runs, the loop does *)
(* nothing else.                                                           *)
(***************************************************************************)
EXTENDS Naturals

CONSTANTS QuickURLs,    \* what cloudflared can print
          ManagedURL,   \* what the control plane provisions
          NoURL         \* ""

Kinds == {"quick", "managed"}
URLsOf(k) == IF k = "quick" THEN QuickURLs ELSE {ManagedURL}
TunnelURLs == QuickURLs \cup {ManagedURL}

VARIABLES
    loop,       \* where the loop is; "none" once it returns
    cancelled,  \* its context
    url,        \* the manager's url field
    cb,         \* the callback of setURL: not called, reading the mode, pushing
    procs       \* cloudflared processes alive

tunnelVars == <<loop, cancelled, url, cb, procs>>

Loops == {"none", "starting", "spawning", "up"}

TunnelTypeOK ==
    /\ loop \in [Kinds -> Loops]
    /\ cancelled \in [Kinds -> BOOLEAN]
    /\ \A k \in Kinds : url[k] \in URLsOf(k) \cup {NoURL}
    /\ url \in [Kinds -> TunnelURLs \cup {NoURL}]
    /\ cb \in [Kinds -> {"none", "deciding", "pushing"}]
    /\ procs \in [Kinds -> Nat]

TunnelInit ==
    /\ loop = [k \in Kinds |-> "none"]
    /\ cancelled = [k \in Kinds |-> FALSE]
    /\ url = [k \in Kinds |-> NoURL]
    /\ cb = [k \in Kinds |-> "none"]
    /\ procs = [k \in Kinds |-> 0]

\* setURL: a change is reported.
setURL(k, u) ==
    /\ url' = [url EXCEPT ![k] = u]
    /\ cb' = [cb EXCEPT ![k] = IF url[k] # u THEN "deciding" ELSE "none"]

\* Its done channel is closed after the last callback.
Done(k) == loop[k] = "none" /\ cb[k] = "none"

At(k, l) == loop[k] = l /\ cb[k] = "none"
Goes(k, l) == loop' = [loop EXCEPT ![k] = l]

\* Start, on a new manager: the loop begins. Under a context that is already
\* cancelled it returns at once, having changed nothing.
Start(k, live) ==
    IF live THEN /\ Goes(k, "starting")
                 /\ cancelled' = [cancelled EXCEPT ![k] = FALSE]
            ELSE UNCHANGED <<loop, cancelled>>

Cancel(K) == cancelled' = [k \in Kinds |-> cancelled[k] \/ k \in K]

-----------------------------------------------------------------------------
\* spawn: the process is started. Until then the loop stays where it is, while
\* the control plane refuses to provision or cloudflared cannot be started.
Spawn(k) ==
    /\ At(k, "starting") /\ ~cancelled[k]
    /\ procs' = [procs EXCEPT ![k] = @ + 1]
    /\ Goes(k, "spawning")
    /\ UNCHANGED <<cancelled, url, cb>>

\* The process printed its URL, or that it is connected; it may be gone since.
Ready(k, u) ==
    /\ At(k, "spawning")
    /\ setURL(k, u)
    /\ Goes(k, "up")
    /\ UNCHANGED <<cancelled, procs>>

\* The process that is gone, or is terminated and waited for.
Reaped(k) == procs' = [procs EXCEPT ![k] = IF @ > 0 THEN @ - 1 ELSE 0]

\* Not ready in time, or cancelled: the process is reaped.
SpawnFails(k) ==
    /\ At(k, "spawning")
    /\ Reaped(k)
    /\ Goes(k, "starting")
    /\ UNCHANGED <<cancelled, url, cb>>

\* cloudflared exits on its own.
ProcessDies(k) ==
    /\ procs[k] > 0
    /\ Reaped(k)
    /\ UNCHANGED <<loop, cancelled, url, cb>>

\* The loop notices, and starts over after the backoff.
Exited(k) ==
    /\ At(k, "up") /\ procs[k] = 0
    /\ setURL(k, NoURL)
    /\ Goes(k, "starting")
    /\ UNCHANGED <<cancelled, procs>>

\* Cancelled while the process runs: SIGTERM, SIGKILL after two seconds, and
\* the deferred setURL.
Terminate(k) ==
    /\ At(k, "up") /\ cancelled[k]
    /\ Reaped(k)
    /\ setURL(k, NoURL)
    /\ Goes(k, "none")
    /\ UNCHANGED <<cancelled>>

\* Cancelled between two processes.
LoopReturns(k) ==
    /\ At(k, "starting") /\ cancelled[k]
    /\ setURL(k, NoURL)
    /\ Goes(k, "none")
    /\ UNCHANGED <<cancelled, procs>>

\* What the loop does of its own accord, as long as its process lives.
LoopRuns(k) ==
    \/ Spawn(k) \/ (\E u \in URLsOf(k) : Ready(k, u)) \/ SpawnFails(k)
    \/ Exited(k) \/ Terminate(k) \/ LoopReturns(k)
=============================================================================
