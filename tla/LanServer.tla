----------------------------- MODULE LanServer -----------------------------
(***************************************************************************)
(* The LAN server (internal/lanserve/server.go) and the frames its router  *)
(* takes from a connection, together with the assertion key cache that     *)
(* handshakes on those connections share (KeySource).                      *)
(*                                                                         *)
(* A connection's handler reserves a client slot, upgrades, and reads      *)
(* frame after frame; a handshake is verified in the handler itself, a     *)
(* generation runs in a goroutine of its own.  Contexts form a tree:       *)
(* server, connection, generation.  The server is stopped and a new one    *)
(* started while handlers of the old one may still run; the key cache      *)
(* outlives both.                                                          *)
(***************************************************************************)
EXTENDS Naturals, FiniteSets, KeySource

CONSTANTS Gens,         \* bound: generations at a time
          NoGen,        \* not a generation
          maxClients,   \* slots of a server
          MaxStarts     \* bound: servers one after the other

ASSUME LanServerAssumption ==
    /\ IsFiniteSet(Conns) /\ NoGen \notin Gens
    /\ maxClients \in Nat \ {0} /\ MaxStarts \in Nat

VARIABLES
    up,         \* the current server is listening
    inc,        \* which server that is, or was
    clients,    \* each server's clients counter
    conn,       \* the handler of each connection
    gen         \* the goroutine of each generation

serverVars == <<up, inc, clients, conn, gen>>
vars == <<serverVars, keyVars, live>>

Servers == 1..MaxStarts

\* on is the server, tracked the session's genCancel.
NoConn == [at |-> "off", on |-> 0, tracked |-> NoGen]
\* The connection a generation is for. One whose context is cancelled is free:
\* what is left of it only reports its end. last and told are history: it
\* is its connection's latest, and an interrupt was handled while it was.
FreeGen == [conn |-> Nobody, last |-> FALSE, told |-> FALSE]

Handling == {"over", "reserved", "open", "busy"}

TypeOK ==
    /\ KeySourceTypeOK
    /\ up \in BOOLEAN
    /\ inc \in 0..MaxStarts
    /\ clients \in [Servers -> Nat]
    /\ conn \in [Conns -> [at: Handling \cup {"off"}, on: 0..MaxStarts,
                           tracked: Gens \cup {NoGen}]]
    /\ gen \in [Gens -> [conn: Conns \cup {Nobody}, last: BOOLEAN, told: BOOLEAN]]

Init ==
    /\ KeySourceInit
    /\ up = FALSE /\ inc = 0
    /\ clients = [i \in Servers |-> 0]
    /\ conn = [c \in Conns |-> NoConn]
    /\ gen = [g \in Gens |-> FreeGen]

-----------------------------------------------------------------------------
(***************************************************************************)
(* Start and Stop of the server, one after the other: the reconciler calls *)
(* them.                                                                   *)
(***************************************************************************)
Start ==
    /\ ~up /\ inc < MaxStarts
    /\ up' = TRUE /\ inc' = inc + 1
    /\ UNCHANGED <<clients, conn, gen, keyVars, live>>

\* A mutant: the end of a generation clears what its session tracks.
UntrackAll(G) == [c \in Conns |-> IF \E g \in G : gen[g].conn = c
                                  THEN [conn[c] EXCEPT !.tracked = NoGen] ELSE conn[c]]

\* The generations G are over: cancelled, or their stream is. A cancel
\* function that a session still tracks does nothing from now on.
Over(G) == [g \in Gens |-> IF g \in G THEN FreeGen ELSE gen[g]]
Untrack(G) == [c \in Conns |-> IF conn[c].tracked \in G
                               THEN [conn[c] EXCEPT !.tracked = NoGen] ELSE conn[c]]
Of(C) == {g \in Gens : gen[g].conn \in C}

\* The server's context is cancelled and with it those derived from it. What
\* Shutdown and the wait for the generations do not see end by their deadline
\* may outlast Stop.
Stop ==
    /\ up /\ up' = FALSE
    /\ live' = {c \in live : conn[c].on # inc}
    /\ gen' = Over(Of(live \ live')) /\ conn' = Untrack(Of(live \ live'))
    /\ UNCHANGED <<inc, clients, keyVars>>

-----------------------------------------------------------------------------
(***************************************************************************)
(* handleWebSocket.                                                        *)
(***************************************************************************)
Moves(c, at) == conn' = [conn EXCEPT ![c].at = at]
Counts(c, n) == clients' = [clients EXCEPT ![conn[c].on] = n]
Count(c) == clients[conn[c].on]

\* A slot is reserved, or one too many.
Reserve(c) ==
    /\ up /\ conn[c].at = "off"
    /\ clients' = [clients EXCEPT ![inc] = @ + 1]
    /\ conn' = [conn EXCEPT ![c].on = inc,
                            ![c].at = IF clients[inc] + 1 > maxClients
                                      THEN "over" ELSE "reserved"]
    /\ UNCHANGED <<up, inc, gen, keyVars, live>>

Refuse(c) ==
    /\ conn[c].at = "over"
    /\ Counts(c, Count(c) - 1)
    /\ conn' = [conn EXCEPT ![c] = NoConn]
    /\ UNCHANGED <<up, inc, gen, keyVars, live>>

\* A mutant: the slot is released on a disconnect only.
AcceptFailsLeaks(c) ==
    /\ conn[c].at = "reserved"
    /\ conn' = [conn EXCEPT ![c] = NoConn]
    /\ UNCHANGED <<up, inc, clients, gen, keyVars, live>>

AcceptFails(c) ==
    /\ conn[c].at = "reserved"
    /\ Counts(c, Count(c) - 1)
    /\ conn' = [conn EXCEPT ![c] = NoConn]
    /\ UNCHANGED <<up, inc, gen, keyVars, live>>

\* Upgraded: the connection's context is derived from its server's, which may
\* be cancelled by now.
Accept(c) ==
    /\ conn[c].at = "reserved"
    /\ Moves(c, "open")
    /\ live' = IF up /\ conn[c].on = inc THEN live \cup {c} ELSE live
    /\ UNCHANGED <<up, inc, clients, gen, keyVars>>

\* A frame is there. The context may be cancelled before it is handled.
Read(c) ==
    /\ conn[c].at = "open" /\ c \in live
    /\ Moves(c, "busy")
    /\ UNCHANGED <<up, inc, clients, gen, keyVars, live>>

\* The client went away or was silent for five minutes, a write failed or the
\* context is cancelled: the handler returns, and its deferred calls cancel
\* the connection's context and release the slot.
Leave(c) ==
    /\ conn[c].at = "open"
    /\ Counts(c, Count(c) - 1)
    /\ conn' = [conn EXCEPT ![c] = NoConn]
    /\ live' = live \ {c}
    /\ gen' = Over(Of({c}))
    /\ UNCHANGED <<up, inc, keyVars>>

-----------------------------------------------------------------------------
(***************************************************************************)
(* Handle: the frames that start or stop something.                        *)
(***************************************************************************)
\* pair_hello: the assertion is verified.
Hello(c, k) ==
    /\ conn[c].at = "busy"
    /\ Keys(c, k)
    /\ UNCHANGED serverVars

\* It is answered, and the next frame is read.
Answer(c) ==
    /\ v[c].at \in Verdicts
    /\ v' = [v EXCEPT ![c] = NoVerification]
    /\ Moves(c, "open")
    /\ UNCHANGED <<up, inc, clients, gen, published, keys, fresh,
                   limited, inflight, live, burst>>

\* A generation under the connection's context, which may be cancelled.
Begin(c) == IF c \in live THEN [conn |-> c, last |-> TRUE, told |-> FALSE]
                          ELSE FreeGen

\* user_message, admitted: a generation begins, and replaces the one the
\* session tracked, which is not cancelled.
Message(c, g) ==
    /\ conn[c].at = "busy" /\ v[c].at = "idle" /\ gen[g] = FreeGen
    /\ gen' = [h \in Gens |->
                 IF h = g THEN Begin(c)
                 ELSE [gen[h] EXCEPT !.last = @ /\ gen[h].conn # c]]
    /\ conn' = [conn EXCEPT ![c].at = "open",
                            ![c].tracked = IF c \in live THEN g ELSE NoGen]
    /\ UNCHANGED <<up, inc, clients, keyVars, live>>

\* interrupt or stop: CancelGeneration.
Interrupt(c) ==
    /\ conn[c].at = "busy" /\ v[c].at = "idle"
    /\ conn' = [conn EXCEPT ![c].at = "open", ![c].tracked = NoGen]
    /\ gen' = [g \in Gens |->
                 IF g = conn[c].tracked THEN FreeGen
                 ELSE [gen[g] EXCEPT !.told = @ \/ (gen[g].conn = c /\ gen[g].last)]]
    /\ UNCHANGED <<up, inc, clients, keyVars, live>>

\* Any other frame, and one that is refused: only an answer is written.
OtherFrame(c) ==
    /\ conn[c].at = "busy" /\ v[c].at = "idle"
    /\ Moves(c, "open")
    /\ UNCHANGED <<up, inc, clients, gen, keyVars, live>>

\* generate returns of its own accord: the stream is over or failed, or a
\* write failed.
Finish(g) ==
    /\ gen[g] # FreeGen
    /\ gen' = Over({g}) /\ conn' = Untrack({g})
    /\ UNCHANGED <<up, inc, clients, keyVars, live>>

-----------------------------------------------------------------------------
Enters(c) == Refuse(c) \/ AcceptFails(c) \/ Accept(c)

Handles(c) ==
    \/ (\E k \in Kids : Hello(c, k)) \/ Answer(c)
    \/ (\E g \in Gens : Message(c, g)) \/ Interrupt(c) \/ OtherFrame(c)

Verification(c) == Verifies(c) /\ UNCHANGED serverVars

Next ==
    \/ Start \/ Stop
    \/ \E c \in Conns : \/ Reserve(c) \/ Enters(c) \/ Read(c) \/ Leave(c)
                        \/ Handles(c) \/ Verification(c)
    \/ \E g \in Gens : Finish(g)
    \/ Elapses /\ UNCHANGED serverVars

Spec == Init /\ [][Next]_vars

\* What a connection's goroutine does without hearing from its client.
HandlerRuns(c) ==
    Enters(c) \/ Handles(c) \/ Verification(c) \/ (c \notin live /\ Leave(c))

\* Handlers run, a fetch is answered or times out, and what is cancelled
\* ends. Clients need not come, go or send anything.
FairSpec ==
    /\ Spec
    /\ \A c \in Conns : WF_vars(HandlerRuns(c))

-----------------------------------------------------------------------------
(***************************************************************************)
(* The slot count is what the handlers hold, through refusals, failed      *)
(* upgrades, disconnects and stops, so no slot is lost for good; and it    *)
(* never admits more than maxClients, although it is raised before it is   *)
(* compared (handleWebSocket).                                             *)
(***************************************************************************)
SlotsKept ==
    \A i \in Servers :
        LET On(S) == Cardinality({c \in Conns : conn[c].on = i /\ conn[c].at \in S})
        IN clients[i] = On(Handling) /\ On(Handling \ {"over"}) <= maxClients

(***************************************************************************)
(* No generation runs on for nobody: one whose context is not cancelled    *)
(* has its connection open and its server up, and was not the latest of    *)
(* its connection when an interrupt came (routeInner, CancelGeneration,    *)
(* the deferred calls of handleWebSocket, Stop).  An earlier one that a    *)
(* second message replaced is beyond an interrupt's reach, and ends with   *)
(* the connection.                                                         *)
(***************************************************************************)
NoOrphans ==
    \A g \in Gens :
        gen[g].conn # Nobody =>
            /\ up /\ conn[gen[g].conn].on = inc
            /\ gen[g].conn \in live /\ conn[gen[g].conn].at \in {"open", "busy"}
            /\ ~gen[g].told

(***************************************************************************)
(* "A transient control plane outage must not break pairing for an         *)
(* already-known signing key": a verification does not fail when its kid   *)
(* was in the cache all the time, whatever refreshes fail, expire, are     *)
(* shared or are cancelled meanwhile (Keys, KeysForKid).                   *)
(***************************************************************************)
KnownKid ==
    \A c \in Conns : v[c].at \in {"unknown", "error"} => ~v[c].sure

(***************************************************************************)
(* The cache never goes back to an older key set, although the answer of a *)
(* fetch is stored some time after the control plane gave it (refresh).    *)
(***************************************************************************)
KeysNotRegress == [][keys' >= keys]_vars

(***************************************************************************)
(* "A stream of tokens carrying a bogus kid cannot turn into a fetch       *)
(* storm": between two ends of the limit there is at most one forced       *)
(* refresh for each connection that was past the check when the limit      *)
(* began.  It is not one altogether: the mutex is released between the     *)
(* check and the refresh that records the attempt (KeysForKid, refresh).   *)
(***************************************************************************)
NoFetchStorm ==
    burst + Cardinality({c \in Conns : limited /\ v[c].at = "refresh"
                                               /\ v[c].why = "kid"})
        <= Cardinality(Conns)

(***************************************************************************)
(* A handshake's verification ends, whoever leads the fetch it waits for   *)
(* and however that fails (refresh).                                       *)
(***************************************************************************)
VerificationEnds ==
    \A c \in Conns : v[c].at \in Waiting ~> v[c].at \notin Waiting
=============================================================================
