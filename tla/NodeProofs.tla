----------------------------- MODULE NodeProofs -----------------------------
(***************************************************************************)
(* Proofs about Node, for any number of patches that wait, any set of URLs *)
(* a quick tunnel can get and every setting of the capabilities.           *)
(***************************************************************************)
EXTENDS Node, TLAPS

-----------------------------------------------------------------------------
(***************************************************************************)
(* The inductive invariants.                                               *)
(***************************************************************************)
\* A loop that has not spawned, or has returned, has no process.
ProcInv ==
    \A k \in Kinds : /\ procs[k] <= 1
                     /\ loop[k] \in {"none", "starting"} => procs[k] = 0

\* Reconcile is waiting for the manager of kind k to stop.
Waiting(k) == rc.at = k /\ rc.stopped

\* A loop belongs to the manager in the slot, or to the one Reconcile has taken
\* out of it and waits for, which it does not want.
SlotInv ==
    /\ rc.stopped => ~Want(rc.at)
    /\ \A k \in Kinds : k \notin slot => Done(k) \/ Waiting(k)

\* Once stopTunnel has returned, the only loop left is one a Reconcile waits
\* for, and Run returns in time only when there is no Reconcile.
ExitInv ==
    /\ main \in {"stopAdmin", "exited", "abandoned"} =>
          \A k \in Kinds : Done(k) \/ Waiting(k)
    /\ main = "exited" => rc.at = "idle"

\* The Reconcile under way is done with the manager of kind k.
Passed(k) == rc.at \in {"idle", "url", "set"} \/ (rc.at = "managed" /\ k = "quick")

\* The URLs the registration manager may have in a mode.
ModeURLs(m) == CASE m \in Kinds -> URLsOf(m) \cup {NoURL}
                 [] m = "external" -> {ExternalURL}
                 [] OTHER -> {NoURL}

TodoInv == rc.at # "caps" => rc.todo = {}

\* With no patch waiting, the Reconcile under way works from the configuration
\* that is live, and what it has passed agrees with it; so does everything once
\* it is over, the URL from the first Reconcile of Run on.
FreshInv ==
    owed = 0 =>
       /\ rc.at # "idle" => rc.snap = mode
       /\ \A c \in capRunning \ rc.todo : Enabled(c)
       /\ \A k \in Kinds : k # mode /\ Passed(k) => k \notin slot /\ Done(k)
       /\ rc.at = "set" => rc.url \in ModeURLs(mode)
       /\ main # "starting" /\ rc.at = "idle" => regURL \in ModeURLs(mode)

-----------------------------------------------------------------------------
(***************************************************************************)
(* Types.                                                                  *)
(***************************************************************************)
Record == [by: {"nobody", "tick", "patch"}, at: Steps, todo: SUBSET Caps,
           snap: Modes, any: BOOLEAN, stopped: BOOLEAN, url: URLs]

\* What TypeOK says of the Reconcile that holds the mutex.
ReconcileOK ==
    /\ rc \in Record
    /\ rc.by = "nobody" <=> rc.at = "idle"
    /\ rc.stopped => rc.at \in Kinds /\ rc.at \notin slot

LEMMA TypeParts ==
    ASSUME TypeOK
    PROVE  /\ TunnelTypeOK /\ ReconcileOK /\ rc \in Record
           /\ mode \in Modes /\ memory \in BOOLEAN /\ capRunning \subseteq Caps
           /\ slot \subseteq Kinds /\ regURL \in URLs /\ owed \in 0..MaxOwed
           /\ stopping \in BOOLEAN
  BY DEF TypeOK, ReconcileOK, Record

LEMMA NoReconcileFields ==
    /\ NoReconcile \in Record
    /\ NoReconcile.by = "nobody" /\ NoReconcile.at = "idle" /\ NoReconcile.todo = {}
    /\ NoReconcile.stopped = FALSE
  BY DEF NoReconcile, Record, Steps, Modes, URLs

\* What the steps of a Reconcile make of it, field by field.
LEMMA BeginFields ==
    ASSUME TypeOK, NEW by \in {"tick", "patch"}, Begin(by)
    PROVE  /\ rc' \in Record
           /\ rc'.by = by /\ rc'.at = "caps" /\ rc'.todo = Caps /\ rc'.snap = mode
           /\ rc'.stopped = FALSE
           /\ rc.at = "idle" /\ rc.todo = {} /\ rc.stopped = FALSE
<1>1. rc = NoReconcile /\ rc.at = "idle" /\ rc.todo = {} /\ rc.stopped = FALSE
  BY NoReconcileFields DEF Begin
<1> DEFINE q == [NoReconcile EXCEPT !.by = by, !.at = "caps", !.todo = Caps,
                                    !.snap = mode]
<1>2. rc' = q /\ mode \in Modes
  BY TypeParts DEF Begin
<1>3. /\ q \in Record /\ q.by = by /\ q.at = "caps" /\ q.todo = Caps /\ q.snap = mode
      /\ q.stopped = FALSE
  BY <1>2, NoReconcileFields DEF Record, Steps
<1> HIDE DEF q
<1> QED
  BY <1>1, <1>2, <1>3

LEMMA CapFields ==
    ASSUME TypeOK, NEW c \in Caps, ReconcileCap(c)
    PROVE  /\ rc' \in Record /\ rc.at = "caps"
           /\ rc'.by = rc.by /\ rc'.at = "caps" /\ rc'.todo = rc.todo \ {c}
           /\ rc'.snap = rc.snap /\ rc'.stopped = rc.stopped
<1>1. /\ rc \in Record /\ rc.at = "caps" /\ rc' = [rc EXCEPT !.todo = rc.todo \ {c}]
  BY TypeParts DEF ReconcileCap, Record
<1> QED
  BY <1>1 DEF Record

LEMMA CapsFields ==
    ASSUME TypeOK, CapsReconciled
    PROVE  /\ rc' \in Record /\ rc.at = "caps" /\ rc.todo = {}
           /\ rc'.by = rc.by /\ rc'.at = "quick" /\ rc'.todo = rc.todo
           /\ rc'.snap = rc.snap /\ rc'.stopped = rc.stopped
<1> DEFINE e == \E c \in Caps : Enabled(c)
<1>1. e \in BOOLEAN
  OBVIOUS
<1>2. /\ rc \in Record /\ rc.at = "caps" /\ rc.todo = {}
      /\ rc' = [rc EXCEPT !.at = "quick", !.any = e]
  BY TypeParts DEF CapsReconciled
<1> HIDE DEF e
<1> QED
  BY <1>1, <1>2 DEF Record, Steps

LEMMA PassFields ==
    ASSUME TypeOK, NEW k \in Kinds, rc.at = k, Passes(k)
    PROVE  /\ rc' \in Record
           /\ rc'.by = rc.by /\ rc'.at = After(k) /\ rc'.todo = rc.todo
           /\ rc'.snap = rc.snap /\ rc'.stopped = FALSE
           /\ After(k) \in {"managed", "url"} /\ (After(k) = "managed" => k = "quick")
<1>1. After(k) \in {"managed", "url"} /\ (After(k) = "managed" => k = "quick")
  BY DEF After
<1>2. rc \in Record /\ rc' = [rc EXCEPT !.at = After(k), !.stopped = FALSE]
  BY TypeParts DEF Passes
<1> QED
  BY <1>1, <1>2 DEF Record, Steps

LEMMA StopFields ==
    ASSUME TypeOK, NEW k \in Kinds, TunnelStop(k)
    PROVE  /\ rc' \in Record /\ rc'.by = rc.by /\ rc'.at = rc.at /\ rc'.todo = rc.todo
           /\ rc'.snap = rc.snap /\ rc'.any = rc.any /\ rc'.stopped = TRUE
<1>1. rc \in Record /\ rc' = [rc EXCEPT !.stopped = TRUE]
  BY TypeParts DEF TunnelStop
<1> QED
  BY <1>1 DEF Record

\* The URL of a manager is one of its own, or none.
LEMMA DesiredURLIn ==
    ASSUME TypeOK, NEW m \in Modes
    PROVE  DesiredURL(m) \in ModeURLs(m) /\ DesiredURL(m) \in URLs
<1>1. \A k \in Kinds : URL(k) \in URLsOf(k) \cup {NoURL}
  BY TypeParts DEF TunnelTypeOK, URL
<1>2. \A k \in Kinds : URLsOf(k) \subseteq TunnelURLs
  BY DEF URLsOf, TunnelURLs
<1>3. CASE m \in Kinds
  BY <1>1, <1>2, <1>3 DEF DesiredURL, ModeURLs, URLs
<1>4. CASE m = "external"
  BY <1>4 DEF DesiredURL, ModeURLs, URLs, Kinds
<1>5. CASE m \notin Kinds /\ m # "external"
  BY <1>5 DEF DesiredURL, ModeURLs, URLs
<1> QED
  BY <1>3, <1>4, <1>5

LEMMA URLFields ==
    ASSUME TypeOK, ReconcileURL
    PROVE  /\ rc' \in Record /\ rc.at = "url"
           /\ rc'.by = rc.by /\ rc'.at = "set" /\ rc'.todo = rc.todo
           /\ rc'.snap = rc.snap /\ rc'.stopped = rc.stopped
           /\ rc'.url = DesiredURL(rc.snap)
<1> DEFINE u == DesiredURL(rc.snap)
<1>1. /\ rc \in Record /\ rc.at = "url" /\ rc.snap \in Modes
      /\ rc' = [rc EXCEPT !.at = "set", !.url = u]
  BY TypeParts DEF ReconcileURL, Record
<1>2. u \in URLs
  BY <1>1, DesiredURLIn
<1> HIDE DEF u
<1>3. /\ rc' \in Record /\ rc'.by = rc.by /\ rc'.at = "set" /\ rc'.todo = rc.todo
      /\ rc'.snap = rc.snap /\ rc'.stopped = rc.stopped /\ rc'.url = u
  BY <1>1, <1>2 DEF Record, Steps
<1> QED
  BY <1>1, <1>3 DEF u

LEMMA SetFields ==
    ASSUME TypeOK, ReconcileSetURL
    PROVE  /\ rc' \in Record /\ rc.at = "set" /\ rc.url \in URLs /\ rc'.by = "nobody"
           /\ rc'.at = "idle" /\ rc'.todo = {} /\ rc'.stopped = FALSE
  BY TypeParts, NoReconcileFields DEF ReconcileSetURL, Record

\* The managers' variables under their own steps.
LEMMA TunnelSame == TunnelTypeOK /\ UNCHANGED tunnelVars => TunnelTypeOK'
  BY DEF TunnelTypeOK, tunnelVars

LEMMA TypeStep == TypeOK /\ [Next]_vars => TypeOK'
<1> SUFFICES ASSUME TypeOK, [Next]_vars PROVE TypeOK'
  OBVIOUS
<1>1. ASSUME NEW m \in Modes, NEW b \in Memory, Patch(m, b) PROVE TypeOK'
  <2>1. TunnelTypeOK'
    BY <1>1, TypeParts, TunnelSame DEF Patch
  <2>2. ReconcileOK'
    BY <1>1, TypeParts DEF Patch, ReconcileOK, Kinds
  <2> QED
    BY <1>1, <2>1, <2>2, NodeAssumption DEF Patch, TypeOK, ReconcileOK, Record
<1>2. CASE PatchReconciles
  <2>1. TunnelTypeOK'
    BY <1>2, TypeParts, TunnelSame DEF PatchReconciles, Begin
  <2>2. ReconcileOK'
    BY <1>2, TypeParts, BeginFields DEF PatchReconciles, Begin, ReconcileOK,
         Kinds
  <2> QED
    BY <1>2, <2>1, <2>2, NodeAssumption DEF PatchReconciles, Begin, TypeOK,
         ReconcileOK, Record
<1>3. CASE Tick
  <2>1. TunnelTypeOK'
    BY <1>3, TypeParts, TunnelSame DEF Tick, Begin
  <2>2. ReconcileOK'
    BY <1>3, TypeParts, BeginFields DEF Tick, Begin, ReconcileOK, Kinds
  <2> QED
    BY <1>3, <2>1, <2>2 DEF Tick, Begin, TypeOK, ReconcileOK, Record
<1>4. ASSUME NEW c \in Caps, ReconcileCap(c) PROVE TypeOK'
  <2>1. TunnelTypeOK'
    BY <1>4, TypeParts, TunnelSame DEF ReconcileCap
  <2>2. ReconcileOK'
    BY <1>4, TypeParts, CapFields DEF ReconcileCap, ReconcileOK, Kinds
  <2> QED
    BY <1>4, <2>1, <2>2 DEF ReconcileCap, TypeOK, ReconcileOK, Record
<1>5. CASE CapsReconciled
  <2>1. TunnelTypeOK'
    BY <1>5, TypeParts, TunnelSame DEF CapsReconciled
  <2>2. ReconcileOK'
    BY <1>5, TypeParts, CapsFields DEF CapsReconciled, ReconcileOK, Kinds
  <2> QED
    BY <1>5, <2>1, <2>2 DEF CapsReconciled, TypeOK, ReconcileOK, Record
<1>6. ASSUME NEW k \in Kinds, TunnelStart(k) PROVE TypeOK'
  <2>1. TunnelTypeOK'
    BY <1>6, TypeParts DEF TunnelStart, Passes, NodeSame, Start, Goes,
         TunnelTypeOK, Loops
  <2>2. ReconcileOK'
    BY <1>6, TypeParts, PassFields DEF TunnelStart, Passes, NodeSame, Start,
         Goes, ReconcileOK, Kinds
  <2> QED
    BY <1>6, <2>1, <2>2 DEF TunnelStart, Passes, NodeSame, Start, Goes,
         TypeOK, ReconcileOK, Record
<1>7. ASSUME NEW k \in Kinds, TunnelKeep(k) PROVE TypeOK'
  <2>1. TunnelTypeOK'
    BY <1>7, TypeParts, TunnelSame DEF TunnelKeep, Passes, NodeSame
  <2>2. ReconcileOK'
    BY <1>7, TypeParts, PassFields DEF TunnelKeep, Passes, NodeSame,
         ReconcileOK, Kinds
  <2> QED
    BY <1>7, <2>1, <2>2 DEF TunnelKeep, Passes, NodeSame, TypeOK,
         ReconcileOK, Record
<1>8. ASSUME NEW k \in Kinds, TunnelStop(k) PROVE TypeOK'
  <2>1. TunnelTypeOK'
    BY <1>8, TypeParts DEF TunnelStop, NodeSame, Cancel, TunnelTypeOK, Loops
  <2>2. ReconcileOK'
    BY <1>8, TypeParts, StopFields DEF TunnelStop, NodeSame, Cancel,
         ReconcileOK, Kinds
  <2> QED
    BY <1>8, <2>1, <2>2 DEF TunnelStop, NodeSame, Cancel, TypeOK,
         ReconcileOK, Record
<1>9. ASSUME NEW k \in Kinds, TunnelStopped(k) PROVE TypeOK'
  <2>1. TunnelTypeOK'
    BY <1>9, TypeParts, TunnelSame DEF TunnelStopped, Passes, NodeSame
  <2>2. ReconcileOK'
    BY <1>9, TypeParts, PassFields DEF TunnelStopped, Passes, NodeSame,
         ReconcileOK, Kinds
  <2> QED
    BY <1>9, <2>1, <2>2 DEF TunnelStopped, Passes, NodeSame, TypeOK,
         ReconcileOK, Record
<1>10. CASE ReconcileURL
  <2>1. TunnelTypeOK'
    BY <1>10, TypeParts, TunnelSame DEF ReconcileURL, NodeSame
  <2>2. ReconcileOK'
    BY <1>10, TypeParts, URLFields DEF ReconcileURL, NodeSame, ReconcileOK,
         Kinds
  <2> QED
    BY <1>10, <2>1, <2>2 DEF ReconcileURL, NodeSame, TypeOK, ReconcileOK,
         Record
<1>11. CASE ReconcileSetURL
  <2>1. TunnelTypeOK'
    BY <1>11, TypeParts, TunnelSame DEF ReconcileSetURL
  <2>2. ReconcileOK'
    BY <1>11, TypeParts, SetFields DEF ReconcileSetURL, ReconcileOK, Kinds
  <2> QED
    BY <1>11, <2>1, <2>2, SetFields DEF ReconcileSetURL, TypeOK, ReconcileOK,
         Record
<1>12. ASSUME NEW k \in Kinds, CallbackMode(k) PROVE TypeOK'
  <2>1. TunnelTypeOK'
    BY <1>12, TypeParts DEF CallbackMode, nodeVars, TunnelTypeOK, Loops
  <2>2. ReconcileOK'
    BY <1>12, TypeParts DEF CallbackMode, nodeVars, ReconcileOK, Kinds
  <2> QED
    BY <1>12, <2>1, <2>2 DEF CallbackMode, nodeVars, TypeOK, ReconcileOK,
         Record
<1>13. ASSUME NEW k \in Kinds, CallbackPush(k) PROVE TypeOK'
  <2>1. TunnelTypeOK'
    BY <1>13, TypeParts DEF CallbackPush, TunnelTypeOK, Loops
  <2>2. ReconcileOK'
    BY <1>13, TypeParts DEF CallbackPush, ReconcileOK, Kinds
  <2>3. url[k] \in URLs
    BY TypeParts DEF TunnelTypeOK, URLs
  <2> QED
    BY <1>13, <2>1, <2>2, <2>3 DEF CallbackPush, TypeOK, ReconcileOK, Record
<1>14. ASSUME NEW k \in Kinds, Spawn(k), UNCHANGED nodeVars PROVE TypeOK'
  <2>1. TunnelTypeOK'
    BY <1>14, TypeParts DEF Spawn, nodeVars, At, Goes, TunnelTypeOK, Loops
  <2>2. ReconcileOK'
    BY <1>14, TypeParts DEF Spawn, nodeVars, At, Goes, ReconcileOK, Kinds
  <2> QED
    BY <1>14, <2>1, <2>2 DEF Spawn, nodeVars, At, Goes, TypeOK, ReconcileOK,
         Record
<1>15. ASSUME NEW k \in Kinds, NEW u \in URLsOf(k), Ready(k, u), UNCHANGED
    nodeVars PROVE TypeOK'
  <2>1. TunnelTypeOK'
    <3>1. \A j \in Kinds : URLsOf(j) \subseteq TunnelURLs
      BY DEF URLsOf, TunnelURLs
    <3>2. \A j \in Kinds : url'[j] \in URLsOf(j) \cup {NoURL}
      BY <1>15, TypeParts DEF Ready, nodeVars, At, Goes, setURL, TunnelTypeOK
    <3> QED
      BY <1>15, TypeParts, <3>1, <3>2 DEF Ready, nodeVars, At, Goes, setURL,
           TunnelTypeOK, Loops
  <2>2. ReconcileOK'
    BY <1>15, TypeParts DEF Ready, nodeVars, At, Goes, setURL, ReconcileOK,
         Kinds
  <2> QED
    BY <1>15, <2>1, <2>2 DEF Ready, nodeVars, At, Goes, setURL, TypeOK,
         ReconcileOK, Record
<1>16. ASSUME NEW k \in Kinds, SpawnFails(k), UNCHANGED nodeVars PROVE TypeOK'
  <2>1. TunnelTypeOK'
    BY <1>16, TypeParts DEF SpawnFails, nodeVars, At, Goes, Reaped,
         TunnelTypeOK, Loops
  <2>2. ReconcileOK'
    BY <1>16, TypeParts DEF SpawnFails, nodeVars, At, Goes, Reaped,
         ReconcileOK, Kinds
  <2> QED
    BY <1>16, <2>1, <2>2 DEF SpawnFails, nodeVars, At, Goes, Reaped, TypeOK,
         ReconcileOK, Record
<1>17. ASSUME NEW k \in Kinds, Exited(k), UNCHANGED nodeVars PROVE TypeOK'
  <2>1. TunnelTypeOK'
    <3>1. \A j \in Kinds : URLsOf(j) \subseteq TunnelURLs
      BY DEF URLsOf, TunnelURLs
    <3>2. \A j \in Kinds : url'[j] \in URLsOf(j) \cup {NoURL}
      BY <1>17, TypeParts DEF Exited, nodeVars, At, Goes, setURL, TunnelTypeOK
    <3> QED
      BY <1>17, TypeParts, <3>1, <3>2 DEF Exited, nodeVars, At, Goes, setURL,
           TunnelTypeOK, Loops
  <2>2. ReconcileOK'
    BY <1>17, TypeParts DEF Exited, nodeVars, At, Goes, setURL, ReconcileOK,
         Kinds
  <2> QED
    BY <1>17, <2>1, <2>2 DEF Exited, nodeVars, At, Goes, setURL, TypeOK,
         ReconcileOK, Record
<1>18. ASSUME NEW k \in Kinds, Terminate(k), UNCHANGED nodeVars PROVE TypeOK'
  <2>1. TunnelTypeOK'
    <3>1. \A j \in Kinds : URLsOf(j) \subseteq TunnelURLs
      BY DEF URLsOf, TunnelURLs
    <3>2. \A j \in Kinds : url'[j] \in URLsOf(j) \cup {NoURL}
      BY <1>18, TypeParts DEF Terminate, nodeVars, At, Goes, setURL, Reaped,
           TunnelTypeOK
    <3> QED
      BY <1>18, TypeParts, <3>1, <3>2 DEF Terminate, nodeVars, At, Goes,
           setURL, Reaped, TunnelTypeOK, Loops
  <2>2. ReconcileOK'
    BY <1>18, TypeParts DEF Terminate, nodeVars, At, Goes, setURL, Reaped,
         ReconcileOK, Kinds
  <2> QED
    BY <1>18, <2>1, <2>2 DEF Terminate, nodeVars, At, Goes, setURL, Reaped,
         TypeOK, ReconcileOK, Record
<1>19. ASSUME NEW k \in Kinds, LoopReturns(k), UNCHANGED nodeVars PROVE
    TypeOK'
  <2>1. TunnelTypeOK'
    <3>1. \A j \in Kinds : URLsOf(j) \subseteq TunnelURLs
      BY DEF URLsOf, TunnelURLs
    <3>2. \A j \in Kinds : url'[j] \in URLsOf(j) \cup {NoURL}
      BY <1>19, TypeParts DEF LoopReturns, nodeVars, At, Goes, setURL,
           TunnelTypeOK
    <3> QED
      BY <1>19, TypeParts, <3>1, <3>2 DEF LoopReturns, nodeVars, At, Goes,
           setURL, TunnelTypeOK, Loops
  <2>2. ReconcileOK'
    BY <1>19, TypeParts DEF LoopReturns, nodeVars, At, Goes, setURL,
         ReconcileOK, Kinds
  <2> QED
    BY <1>19, <2>1, <2>2 DEF LoopReturns, nodeVars, At, Goes, setURL, TypeOK,
         ReconcileOK, Record
<1>20. ASSUME NEW k \in Kinds, ProcessDies(k), UNCHANGED nodeVars PROVE
    TypeOK'
  <2>1. TunnelTypeOK'
    BY <1>20, TypeParts DEF ProcessDies, nodeVars, Reaped, TunnelTypeOK, Loops
  <2>2. ReconcileOK'
    BY <1>20, TypeParts DEF ProcessDies, nodeVars, Reaped, ReconcileOK, Kinds
  <2> QED
    BY <1>20, <2>1, <2>2 DEF ProcessDies, nodeVars, Reaped, TypeOK,
         ReconcileOK, Record
<1>21. CASE Shutdown
  <2>1. TunnelTypeOK'
    BY <1>21, TypeParts DEF Shutdown, Cancel, TunnelTypeOK, Loops
  <2>2. ReconcileOK'
    BY <1>21, TypeParts DEF Shutdown, Cancel, ReconcileOK, Kinds
  <2> QED
    BY <1>21, <2>1, <2>2 DEF Shutdown, Cancel, TypeOK, ReconcileOK, Record
<1>22. CASE RunEnds
  <2>1. TunnelTypeOK'
    BY <1>22, TypeParts, TunnelSame DEF RunEnds
  <2>2. ReconcileOK'
    BY <1>22, TypeParts DEF RunEnds, ReconcileOK, Kinds
  <2> QED
    BY <1>22, <2>1, <2>2 DEF RunEnds, TypeOK, ReconcileOK, Record
<1>23. CASE StopCaps
  <2>1. TunnelTypeOK'
    BY <1>23, TypeParts, TunnelSame DEF StopCaps
  <2>2. ReconcileOK'
    BY <1>23, TypeParts DEF StopCaps, ReconcileOK, Kinds
  <2> QED
    BY <1>23, <2>1, <2>2 DEF StopCaps, TypeOK, ReconcileOK, Record
<1>24. CASE StopTunnel
  <2>1. TunnelTypeOK'
    BY <1>24, TypeParts, TunnelSame DEF StopTunnel
  <2>2. ReconcileOK'
    BY <1>24, TypeParts DEF StopTunnel, ReconcileOK, Kinds
  <2> QED
    BY <1>24, <2>1, <2>2 DEF StopTunnel, TypeOK, ReconcileOK, Record
<1>25. CASE AdminStopped
  <2>1. TunnelTypeOK'
    BY <1>25, TypeParts, TunnelSame DEF AdminStopped
  <2>2. ReconcileOK'
    BY <1>25, TypeParts DEF AdminStopped, ReconcileOK, Kinds
  <2> QED
    BY <1>25, <2>1, <2>2 DEF AdminStopped, TypeOK, ReconcileOK, Record
<1>26. CASE AdminGivesUp
  <2>1. TunnelTypeOK'
    BY <1>26, TypeParts, TunnelSame DEF AdminGivesUp
  <2>2. ReconcileOK'
    BY <1>26, TypeParts DEF AdminGivesUp, ReconcileOK, Kinds
  <2> QED
    BY <1>26, <2>1, <2>2 DEF AdminGivesUp, TypeOK, ReconcileOK, Record
<1>27. CASE UNCHANGED vars
  BY <1>27 DEF vars, nodeVars, tunnelVars, TypeOK, TunnelTypeOK
<1> QED
  BY <1>1, <1>2, <1>3, <1>4, <1>5, <1>6, <1>7, <1>8, <1>9, <1>10, <1>11,
       <1>12, <1>13, <1>14, <1>15, <1>16, <1>17, <1>18, <1>19, <1>20, <1>21,
       <1>22, <1>23, <1>24, <1>25, <1>26, <1>27 DEF Next, Runs, Reconciling,
       Calls, Loop, LoopRuns, Teardown, Finished

LEMMA TypeInit == Init => TypeOK
<1> SUFFICES ASSUME Init PROVE TypeOK
  OBVIOUS
<1>1. TunnelTypeOK
  BY DEF Init, TunnelInit, TunnelTypeOK, Loops
<1>2. owed \in 0..MaxOwed
  BY NodeAssumption DEF Init
<1> QED
  BY <1>1, <1>2, NoReconcileFields, NodeAssumption
    DEF Init, TypeOK, Record, Modes, URLs

\* The types of the reconciler's and the tunnel managers' state, for any number
\* of patches that wait and any set of URLs.
THEOREM TypeCorrect == Spec => []TypeOK
  BY TypeInit, TypeStep, PTL DEF Spec

-----------------------------------------------------------------------------
(***************************************************************************)
(* Managers, loops and processes.                                          *)
(***************************************************************************)
LEMMA SlotStep == TypeOK /\ SlotInv /\ [Next]_vars => SlotInv'
<1> SUFFICES ASSUME TypeOK, SlotInv, [Next]_vars PROVE SlotInv'
  OBVIOUS
<1>1. ASSUME NEW m \in Modes, NEW b \in Memory, Patch(m, b) PROVE SlotInv'
  BY <1>1, TypeParts DEF Patch, tunnelVars, SlotInv, Waiting, Done, Want
<1>2. CASE PatchReconciles
  BY <1>2, TypeParts, BeginFields DEF PatchReconciles, Begin, tunnelVars,
       SlotInv, Waiting, Done, Want
<1>3. CASE Tick
  BY <1>3, TypeParts, BeginFields DEF Tick, Begin, tunnelVars, SlotInv,
       Waiting,
       Done, Want
<1>4. ASSUME NEW c \in Caps, ReconcileCap(c) PROVE SlotInv'
  <2>1. ~rc.stopped
    BY <1>4, TypeParts DEF ReconcileCap, ReconcileOK, Kinds
  <2> QED
    BY <1>4, <2>1, CapFields DEF ReconcileCap, NodeSame, SlotInv, Waiting,
         Done, tunnelVars
<1>5. CASE CapsReconciled
  <2>1. ~rc.stopped
    BY <1>5, TypeParts DEF CapsReconciled, ReconcileOK, Kinds
  <2> QED
    BY <1>5, <2>1, CapsFields DEF CapsReconciled, NodeSame, SlotInv, Waiting,
         Done, tunnelVars
<1>6. ASSUME NEW k \in Kinds, TunnelStart(k) PROVE SlotInv'
  <2>1. ~rc.stopped /\ Done(k)
    BY <1>6 DEF TunnelStart, SlotInv, Waiting
  <2>2. /\ rc.at = k /\ Passes(k) /\ UNCHANGED cb
        /\ \A j \in Kinds \ {k} : loop'[j] = loop[j]
        /\ k \in slot' \/ loop' = loop
        /\ slot \subseteq slot'
    BY <1>6, TypeParts DEF TunnelStart, Start, Goes, TunnelTypeOK
  <2> QED
    BY <2>1, <2>2, PassFields DEF SlotInv, Waiting, Done
<1>7. ASSUME NEW k \in Kinds, TunnelKeep(k) PROVE SlotInv'
  BY <1>7, PassFields DEF TunnelKeep, NodeSame, SlotInv, Waiting, Done,
       tunnelVars
<1>8. ASSUME NEW k \in Kinds, TunnelStop(k) PROVE SlotInv'
  <2>1. /\ rc.at = k /\ ~Want(k) /\ slot' = slot \ {k} /\ UNCHANGED <<loop, cb>>
    BY <1>8 DEF TunnelStop
  <2>2. rc'.at = k /\ rc'.stopped /\ ~Want(k)'
    BY <1>8, <2>1, StopFields DEF Want
  <2> QED
    BY <2>1, <2>2, TypeParts DEF SlotInv, Waiting, Done, ReconcileOK
<1>9. ASSUME NEW k \in Kinds, TunnelStopped(k) PROVE SlotInv'
  BY <1>9, PassFields DEF TunnelStopped, NodeSame, SlotInv, Waiting, Done,
       tunnelVars
<1>10. CASE ReconcileURL
  <2>1. ~rc.stopped
    BY <1>10, TypeParts DEF ReconcileURL, ReconcileOK, Kinds
  <2> QED
    BY <1>10, <2>1, URLFields DEF ReconcileURL, NodeSame, SlotInv, Waiting,
         Done, tunnelVars
<1>11. CASE ReconcileSetURL
  <2>1. ~rc.stopped
    BY <1>11, TypeParts DEF ReconcileSetURL, ReconcileOK, Kinds
  <2> QED
    BY <1>11, <2>1, SetFields DEF ReconcileSetURL, NodeSame, SlotInv,
         Waiting, Done, tunnelVars
<1>12. ASSUME NEW k \in Kinds, CallbackMode(k) PROVE SlotInv'
  <2>1. ~Done(k) /\ \A j \in Kinds \ {k} : loop'[j] = loop[j] /\ cb'[j] = cb[j]
    BY <1>12, TypeParts DEF CallbackMode, nodeVars, Done, TunnelTypeOK
  <2>2. UNCHANGED <<rc, slot>>
    BY <1>12 DEF CallbackMode, nodeVars
  <2> QED
    BY <2>1, <2>2 DEF SlotInv, Waiting, Done, Want
<1>13. ASSUME NEW k \in Kinds, CallbackPush(k) PROVE SlotInv'
  <2>1. ~Done(k) /\ \A j \in Kinds \ {k} : loop'[j] = loop[j] /\ cb'[j] = cb[j]
    BY <1>13, TypeParts DEF CallbackPush, Done, TunnelTypeOK
  <2>2. UNCHANGED <<rc, slot>>
    BY <1>13 DEF CallbackPush, nodeVars
  <2> QED
    BY <2>1, <2>2 DEF SlotInv, Waiting, Done, Want
<1>14. ASSUME NEW k \in Kinds, Spawn(k), UNCHANGED nodeVars PROVE SlotInv'
  <2>1. ~Done(k) /\ \A j \in Kinds \ {k} : loop'[j] = loop[j] /\ cb'[j] = cb[j]
    BY <1>14, TypeParts DEF Spawn, nodeVars, At, Goes, Done, TunnelTypeOK
  <2>2. UNCHANGED <<rc, slot>>
    BY <1>14 DEF Spawn, nodeVars
  <2> QED
    BY <2>1, <2>2 DEF SlotInv, Waiting, Done, Want
<1>15. ASSUME NEW k \in Kinds, NEW u \in URLsOf(k), Ready(k, u), UNCHANGED
    nodeVars PROVE SlotInv'
  <2>1. ~Done(k) /\ \A j \in Kinds \ {k} : loop'[j] = loop[j] /\ cb'[j] = cb[j]
    BY <1>15, TypeParts DEF Ready, nodeVars, At, Goes, setURL, Done,
         TunnelTypeOK
  <2>2. UNCHANGED <<rc, slot>>
    BY <1>15 DEF Ready, nodeVars
  <2> QED
    BY <2>1, <2>2 DEF SlotInv, Waiting, Done, Want
<1>16. ASSUME NEW k \in Kinds, SpawnFails(k), UNCHANGED nodeVars PROVE
    SlotInv'
  <2>1. ~Done(k) /\ \A j \in Kinds \ {k} : loop'[j] = loop[j] /\ cb'[j] = cb[j]
    BY <1>16, TypeParts DEF SpawnFails, nodeVars, At, Goes, Reaped, Done,
         TunnelTypeOK
  <2>2. UNCHANGED <<rc, slot>>
    BY <1>16 DEF SpawnFails, nodeVars
  <2> QED
    BY <2>1, <2>2 DEF SlotInv, Waiting, Done, Want
<1>17. ASSUME NEW k \in Kinds, Exited(k), UNCHANGED nodeVars PROVE SlotInv'
  <2>1. ~Done(k) /\ \A j \in Kinds \ {k} : loop'[j] = loop[j] /\ cb'[j] = cb[j]
    BY <1>17, TypeParts DEF Exited, nodeVars, At, Goes, setURL, Done,
         TunnelTypeOK
  <2>2. UNCHANGED <<rc, slot>>
    BY <1>17 DEF Exited, nodeVars
  <2> QED
    BY <2>1, <2>2 DEF SlotInv, Waiting, Done, Want
<1>18. ASSUME NEW k \in Kinds, Terminate(k), UNCHANGED nodeVars PROVE SlotInv'
  <2>1. ~Done(k) /\ \A j \in Kinds \ {k} : loop'[j] = loop[j] /\ cb'[j] = cb[j]
    BY <1>18, TypeParts DEF Terminate, nodeVars, At, Goes, setURL, Reaped,
         Done, TunnelTypeOK
  <2>2. UNCHANGED <<rc, slot>>
    BY <1>18 DEF Terminate, nodeVars
  <2> QED
    BY <2>1, <2>2 DEF SlotInv, Waiting, Done, Want
<1>19. ASSUME NEW k \in Kinds, LoopReturns(k), UNCHANGED nodeVars PROVE
    SlotInv'
  <2>1. ~Done(k) /\ \A j \in Kinds \ {k} : loop'[j] = loop[j] /\ cb'[j] = cb[j]
    BY <1>19, TypeParts DEF LoopReturns, nodeVars, At, Goes, setURL, Done,
         TunnelTypeOK
  <2>2. UNCHANGED <<rc, slot>>
    BY <1>19 DEF LoopReturns, nodeVars
  <2> QED
    BY <2>1, <2>2 DEF SlotInv, Waiting, Done, Want
<1>20. ASSUME NEW k \in Kinds, ProcessDies(k), UNCHANGED nodeVars PROVE
    SlotInv'
  BY <1>20, TypeParts DEF ProcessDies, nodeVars, Reaped, SlotInv, Waiting,
       Done,
       Want
<1>21. CASE Shutdown
  BY <1>21, TypeParts DEF Shutdown, Cancel, SlotInv, Waiting, Done, Want
<1>22. CASE RunEnds
  BY <1>22, TypeParts DEF RunEnds, tunnelVars, SlotInv, Waiting, Done, Want
<1>23. CASE StopCaps
  BY <1>23, TypeParts DEF StopCaps, tunnelVars, SlotInv, Waiting, Done, Want
<1>24. CASE StopTunnel
  BY <1>24 DEF StopTunnel, SlotInv, Waiting, Done, Want, tunnelVars
<1>25. CASE AdminStopped
  BY <1>25, TypeParts DEF AdminStopped, tunnelVars, SlotInv, Waiting, Done,
       Want
<1>26. CASE AdminGivesUp
  BY <1>26, TypeParts DEF AdminGivesUp, tunnelVars, SlotInv, Waiting, Done,
       Want
<1>27. CASE UNCHANGED vars
  BY <1>27 DEF vars, nodeVars, tunnelVars, SlotInv, Done, Waiting, Want
<1> QED
  BY <1>1, <1>2, <1>3, <1>4, <1>5, <1>6, <1>7, <1>8, <1>9, <1>10, <1>11,
       <1>12, <1>13, <1>14, <1>15, <1>16, <1>17, <1>18, <1>19, <1>20, <1>21,
       <1>22, <1>23, <1>24, <1>25, <1>26, <1>27 DEF Next, Runs, Reconciling,
       Calls, Loop, LoopRuns, Teardown, Finished

LEMMA ProcStep == TypeOK /\ SlotInv /\ ProcInv /\ [Next]_vars => ProcInv'
<1> SUFFICES ASSUME TypeOK, SlotInv, ProcInv, [Next]_vars PROVE ProcInv'
  OBVIOUS
<1>1. ASSUME NEW m \in Modes, NEW b \in Memory, Patch(m, b) PROVE ProcInv'
  BY <1>1, TypeParts DEF Patch, tunnelVars, ProcInv
<1>2. CASE PatchReconciles
  BY <1>2, TypeParts, BeginFields DEF PatchReconciles, Begin, tunnelVars,
       ProcInv
<1>3. CASE Tick
  BY <1>3, TypeParts, BeginFields DEF Tick, Begin, tunnelVars, ProcInv
<1>4. ASSUME NEW c \in Caps, ReconcileCap(c) PROVE ProcInv'
  BY <1>4, TypeParts, CapFields DEF ReconcileCap, tunnelVars, ProcInv
<1>5. CASE CapsReconciled
  BY <1>5, TypeParts, CapsFields DEF CapsReconciled, tunnelVars, ProcInv
<1>6. ASSUME NEW k \in Kinds, TunnelStart(k) PROVE ProcInv'
  <2>1. ~rc.stopped /\ Done(k) /\ procs[k] = 0
    BY <1>6 DEF TunnelStart, SlotInv, Waiting, ProcInv, Done
  <2>2. /\ UNCHANGED procs
        /\ \A j \in Kinds \ {k} : loop'[j] = loop[j]
    BY <1>6, TypeParts DEF TunnelStart, Start, Goes, TunnelTypeOK
  <2> QED
    BY <2>1, <2>2, TypeParts DEF ProcInv
<1>7. ASSUME NEW k \in Kinds, TunnelKeep(k) PROVE ProcInv'
  BY <1>7, TypeParts, PassFields DEF TunnelKeep, Passes, NodeSame, tunnelVars,
       ProcInv
<1>8. ASSUME NEW k \in Kinds, TunnelStop(k) PROVE ProcInv'
  BY <1>8, TypeParts, StopFields DEF TunnelStop, NodeSame, Cancel, ProcInv
<1>9. ASSUME NEW k \in Kinds, TunnelStopped(k) PROVE ProcInv'
  BY <1>9, TypeParts, PassFields DEF TunnelStopped, Passes, NodeSame,
       tunnelVars,
       ProcInv
<1>10. CASE ReconcileURL
  BY <1>10, TypeParts, URLFields DEF ReconcileURL, NodeSame, tunnelVars,
       ProcInv
<1>11. CASE ReconcileSetURL
  BY <1>11, TypeParts, SetFields DEF ReconcileSetURL, tunnelVars, ProcInv
<1>12. ASSUME NEW k \in Kinds, CallbackMode(k) PROVE ProcInv'
  BY <1>12, TypeParts DEF CallbackMode, nodeVars, ProcInv
<1>13. ASSUME NEW k \in Kinds, CallbackPush(k) PROVE ProcInv'
  BY <1>13, TypeParts DEF CallbackPush, ProcInv
<1>14. ASSUME NEW k \in Kinds, Spawn(k), UNCHANGED nodeVars PROVE ProcInv'
  BY <1>14, TypeParts DEF Spawn, nodeVars, At, Goes, ProcInv, TunnelTypeOK
<1>15. ASSUME NEW k \in Kinds, NEW u \in URLsOf(k), Ready(k, u), UNCHANGED
    nodeVars PROVE ProcInv'
  BY <1>15, TypeParts DEF Ready, nodeVars, At, Goes, setURL, ProcInv,
       TunnelTypeOK
<1>16. ASSUME NEW k \in Kinds, SpawnFails(k), UNCHANGED nodeVars PROVE
    ProcInv'
  BY <1>16, TypeParts DEF SpawnFails, nodeVars, At, Goes, Reaped, ProcInv,
       TunnelTypeOK
<1>17. ASSUME NEW k \in Kinds, Exited(k), UNCHANGED nodeVars PROVE ProcInv'
  BY <1>17, TypeParts DEF Exited, nodeVars, At, Goes, setURL, ProcInv,
       TunnelTypeOK
<1>18. ASSUME NEW k \in Kinds, Terminate(k), UNCHANGED nodeVars PROVE ProcInv'
  BY <1>18, TypeParts DEF Terminate, nodeVars, At, Goes, setURL, Reaped,
       ProcInv, TunnelTypeOK
<1>19. ASSUME NEW k \in Kinds, LoopReturns(k), UNCHANGED nodeVars PROVE
    ProcInv'
  BY <1>19, TypeParts DEF LoopReturns, nodeVars, At, Goes, setURL, ProcInv,
       TunnelTypeOK
<1>20. ASSUME NEW k \in Kinds, ProcessDies(k), UNCHANGED nodeVars PROVE
    ProcInv'
  BY <1>20, TypeParts DEF ProcessDies, nodeVars, Reaped, ProcInv, TunnelTypeOK
<1>21. CASE Shutdown
  BY <1>21, TypeParts DEF Shutdown, Cancel, ProcInv
<1>22. CASE RunEnds
  BY <1>22, TypeParts DEF RunEnds, tunnelVars, ProcInv
<1>23. CASE StopCaps
  BY <1>23, TypeParts DEF StopCaps, tunnelVars, ProcInv
<1>24. CASE StopTunnel
  BY <1>24, TypeParts DEF StopTunnel, tunnelVars, ProcInv
<1>25. CASE AdminStopped
  BY <1>25, TypeParts DEF AdminStopped, tunnelVars, ProcInv
<1>26. CASE AdminGivesUp
  BY <1>26, TypeParts DEF AdminGivesUp, tunnelVars, ProcInv
<1>27. CASE UNCHANGED vars
  BY <1>27 DEF vars, nodeVars, tunnelVars, ProcInv
<1> QED
  BY <1>1, <1>2, <1>3, <1>4, <1>5, <1>6, <1>7, <1>8, <1>9, <1>10, <1>11,
       <1>12, <1>13, <1>14, <1>15, <1>16, <1>17, <1>18, <1>19, <1>20, <1>21,
       <1>22, <1>23, <1>24, <1>25, <1>26, <1>27 DEF Next, Runs, Reconciling,
       Calls, Loop, LoopRuns, Teardown, Finished

LEMMA ExitStep == TypeOK /\ SlotInv /\ ExitInv /\ [Next]_vars => ExitInv'
<1> SUFFICES ASSUME TypeOK, SlotInv, ExitInv, [Next]_vars PROVE ExitInv'
  OBVIOUS
<1>1. ASSUME NEW m \in Modes, NEW b \in Memory, Patch(m, b) PROVE ExitInv'
  BY <1>1, TypeParts DEF Patch, tunnelVars, ExitInv, Waiting, Done
<1>2. CASE ~Over /\ PatchReconciles
  <2>1. ~rc.stopped
    BY <1>2, TypeParts, BeginFields DEF PatchReconciles, ReconcileOK, Kinds
  <2>2. main' # "exited"
    BY <1>2, BeginFields DEF PatchReconciles, NodeSame, Over, ExitInv, Begin
  <2> QED
    BY <1>2, <2>1, <2>2, BeginFields DEF PatchReconciles, Begin, ExitInv,
         Waiting, Done, tunnelVars
<1>3. CASE Tick
  <2>1. ~rc.stopped
    BY <1>3, TypeParts, BeginFields DEF Tick, ReconcileOK, Kinds
  <2>2. main' # "exited"
    BY <1>3, BeginFields DEF Tick, NodeSame, ExitInv, Begin
  <2> QED
    BY <1>3, <2>1, <2>2, BeginFields DEF Tick, Begin, ExitInv, Waiting, Done,
         tunnelVars
<1>4. ASSUME NEW c \in Caps, ReconcileCap(c) PROVE ExitInv'
  <2>1. ~rc.stopped
    BY <1>4, TypeParts DEF ReconcileCap, ReconcileOK, Kinds
  <2>2. main' # "exited"
    BY <1>4, CapFields DEF ReconcileCap, NodeSame, ExitInv, Begin
  <2> QED
    BY <1>4, <2>1, <2>2, CapFields DEF ReconcileCap, ExitInv, Waiting, Done,
         tunnelVars
<1>5. CASE CapsReconciled
  <2>1. ~rc.stopped
    BY <1>5, TypeParts DEF CapsReconciled, ReconcileOK, Kinds
  <2>2. main' # "exited"
    BY <1>5, CapsFields DEF CapsReconciled, NodeSame, ExitInv, Begin
  <2> QED
    BY <1>5, <2>1, <2>2, CapsFields DEF CapsReconciled, ExitInv, Waiting,
         Done, tunnelVars
<1>6. ASSUME NEW k \in Kinds, TunnelStart(k) PROVE ExitInv'
  <2>1. ~rc.stopped /\ rc.at = k /\ Passes(k) /\ UNCHANGED <<main, cb>>
    BY <1>6 DEF TunnelStart, SlotInv, NodeSame
  <2>2. stopping => UNCHANGED loop
    BY <1>6 DEF TunnelStart, Start
  <2>3. main \notin {"starting", "running"} => stopping
    BY DEF TypeOK
  <2> QED
    BY <2>1, <2>2, <2>3, PassFields DEF ExitInv, Waiting, Done, Kinds
<1>7. ASSUME NEW k \in Kinds, TunnelKeep(k) PROVE ExitInv'
  BY <1>7, PassFields
    DEF TunnelKeep, NodeSame, ExitInv, Waiting, Done, Kinds, tunnelVars
<1>8. ASSUME NEW k \in Kinds, TunnelStop(k) PROVE ExitInv'
  <2>1. /\ rc.at = k /\ UNCHANGED <<loop, cb, main>>
    BY <1>8 DEF TunnelStop, NodeSame
  <2>2. rc'.at = k /\ rc'.stopped
    BY <1>8, <2>1, StopFields
  <2> QED
    BY <2>1, <2>2 DEF ExitInv, Waiting, Done, Kinds
<1>9. ASSUME NEW k \in Kinds, TunnelStopped(k) PROVE ExitInv'
  BY <1>9, PassFields
    DEF TunnelStopped, NodeSame, ExitInv, Waiting, Done, Kinds, tunnelVars
<1>10. CASE ReconcileURL
  <2>1. ~rc.stopped
    BY <1>10, TypeParts DEF ReconcileURL, ReconcileOK, Kinds
  <2>2. main' # "exited"
    BY <1>10, URLFields DEF ReconcileURL, NodeSame, ExitInv, Begin
  <2> QED
    BY <1>10, <2>1, <2>2, URLFields DEF ReconcileURL, NodeSame, ExitInv,
         Waiting, Done, tunnelVars
<1>11. CASE ReconcileSetURL
  <2>1. ~rc.stopped
    BY <1>11, TypeParts DEF ReconcileSetURL, ReconcileOK, Kinds
  <2>2. main' # "exited"
    BY <1>11, SetFields DEF ReconcileSetURL, NodeSame, ExitInv, Begin
  <2> QED
    BY <1>11, <2>1, <2>2, SetFields DEF ReconcileSetURL, ExitInv, Waiting,
         Done, tunnelVars
<1>12. ASSUME NEW k \in Kinds, CallbackMode(k) PROVE ExitInv'
  <2>1. ~Done(k) /\ \A j \in Kinds \ {k} : loop'[j] = loop[j] /\ cb'[j] = cb[j]
    BY <1>12, TypeParts DEF CallbackMode, nodeVars, Done, TunnelTypeOK
  <2>2. UNCHANGED <<rc, main>>
    BY <1>12 DEF CallbackMode, nodeVars
  <2> QED
    BY <2>1, <2>2 DEF ExitInv, Waiting, Done
<1>13. ASSUME NEW k \in Kinds, CallbackPush(k) PROVE ExitInv'
  <2>1. ~Done(k) /\ \A j \in Kinds \ {k} : loop'[j] = loop[j] /\ cb'[j] = cb[j]
    BY <1>13, TypeParts DEF CallbackPush, Done, TunnelTypeOK
  <2>2. UNCHANGED <<rc, main>>
    BY <1>13 DEF CallbackPush, nodeVars
  <2> QED
    BY <2>1, <2>2 DEF ExitInv, Waiting, Done
<1>14. ASSUME NEW k \in Kinds, Spawn(k), UNCHANGED nodeVars PROVE ExitInv'
  <2>1. ~Done(k) /\ \A j \in Kinds \ {k} : loop'[j] = loop[j] /\ cb'[j] = cb[j]
    BY <1>14, TypeParts DEF Spawn, nodeVars, At, Goes, Done, TunnelTypeOK
  <2>2. UNCHANGED <<rc, main>>
    BY <1>14 DEF Spawn, nodeVars
  <2> QED
    BY <2>1, <2>2 DEF ExitInv, Waiting, Done
<1>15. ASSUME NEW k \in Kinds, NEW u \in URLsOf(k), Ready(k, u), UNCHANGED
    nodeVars PROVE ExitInv'
  <2>1. ~Done(k) /\ \A j \in Kinds \ {k} : loop'[j] = loop[j] /\ cb'[j] = cb[j]
    BY <1>15, TypeParts DEF Ready, nodeVars, At, Goes, setURL, Done,
         TunnelTypeOK
  <2>2. UNCHANGED <<rc, main>>
    BY <1>15 DEF Ready, nodeVars
  <2> QED
    BY <2>1, <2>2 DEF ExitInv, Waiting, Done
<1>16. ASSUME NEW k \in Kinds, SpawnFails(k), UNCHANGED nodeVars PROVE
    ExitInv'
  <2>1. ~Done(k) /\ \A j \in Kinds \ {k} : loop'[j] = loop[j] /\ cb'[j] = cb[j]
    BY <1>16, TypeParts DEF SpawnFails, nodeVars, At, Goes, Reaped, Done,
         TunnelTypeOK
  <2>2. UNCHANGED <<rc, main>>
    BY <1>16 DEF SpawnFails, nodeVars
  <2> QED
    BY <2>1, <2>2 DEF ExitInv, Waiting, Done
<1>17. ASSUME NEW k \in Kinds, Exited(k), UNCHANGED nodeVars PROVE ExitInv'
  <2>1. ~Done(k) /\ \A j \in Kinds \ {k} : loop'[j] = loop[j] /\ cb'[j] = cb[j]
    BY <1>17, TypeParts DEF Exited, nodeVars, At, Goes, setURL, Done,
         TunnelTypeOK
  <2>2. UNCHANGED <<rc, main>>
    BY <1>17 DEF Exited, nodeVars
  <2> QED
    BY <2>1, <2>2 DEF ExitInv, Waiting, Done
<1>18. ASSUME NEW k \in Kinds, Terminate(k), UNCHANGED nodeVars PROVE ExitInv'
  <2>1. ~Done(k) /\ \A j \in Kinds \ {k} : loop'[j] = loop[j] /\ cb'[j] = cb[j]
    BY <1>18, TypeParts DEF Terminate, nodeVars, At, Goes, setURL, Reaped,
         Done, TunnelTypeOK
  <2>2. UNCHANGED <<rc, main>>
    BY <1>18 DEF Terminate, nodeVars
  <2> QED
    BY <2>1, <2>2 DEF ExitInv, Waiting, Done
<1>19. ASSUME NEW k \in Kinds, LoopReturns(k), UNCHANGED nodeVars PROVE
    ExitInv'
  <2>1. ~Done(k) /\ \A j \in Kinds \ {k} : loop'[j] = loop[j] /\ cb'[j] = cb[j]
    BY <1>19, TypeParts DEF LoopReturns, nodeVars, At, Goes, setURL, Done,
         TunnelTypeOK
  <2>2. UNCHANGED <<rc, main>>
    BY <1>19 DEF LoopReturns, nodeVars
  <2> QED
    BY <2>1, <2>2 DEF ExitInv, Waiting, Done
<1>20. ASSUME NEW k \in Kinds, ProcessDies(k), UNCHANGED nodeVars PROVE
    ExitInv'
  BY <1>20, TypeParts DEF ProcessDies, nodeVars, Reaped, ExitInv, Waiting, Done
<1>21. CASE Shutdown
  BY <1>21, TypeParts DEF Shutdown, Cancel, ExitInv, Waiting, Done
<1>22. CASE RunEnds
  BY <1>22, TypeParts DEF RunEnds, tunnelVars, ExitInv, Waiting, Done
<1>23. CASE StopCaps
  BY <1>23, TypeParts DEF StopCaps, tunnelVars, ExitInv, Waiting, Done
<1>24. CASE StopTunnel
  BY <1>24 DEF StopTunnel, SlotInv, ExitInv, Waiting, Done, tunnelVars
<1>25. CASE AdminStopped
  BY <1>25, NoReconcileFields DEF AdminStopped, ExitInv, Waiting, Done,
       tunnelVars
<1>26. CASE AdminGivesUp
  BY <1>26, TypeParts DEF AdminGivesUp, tunnelVars, ExitInv, Waiting, Done
<1>27. CASE UNCHANGED vars
  BY <1>27 DEF vars, nodeVars, tunnelVars, ExitInv, Waiting, Done
<1> QED
  BY <1>1, <1>2, <1>3, <1>4, <1>5, <1>6, <1>7, <1>8, <1>9, <1>10, <1>11,
       <1>12, <1>13, <1>14, <1>15, <1>16, <1>17, <1>18, <1>19, <1>20, <1>21,
       <1>22, <1>23, <1>24, <1>25, <1>26, <1>27 DEF Next, Runs, Reconciling,
       Calls, Loop, LoopRuns, Teardown, Finished

LEMMA KeptCorrect == Spec => [](TypeOK /\ SlotInv /\ ProcInv /\ ExitInv)
<1>1. Init => SlotInv /\ ProcInv /\ ExitInv
  BY NoReconcileFields DEF Init, TunnelInit, SlotInv, ProcInv, ExitInv, Done
<1> QED
  BY <1>1, TypeInit, TypeStep, SlotStep, ProcStep, ExitStep, PTL DEF Spec

(***************************************************************************)
(* A manager has at most one cloudflared process, and none is left when    *)
(* Run returns in time, although stopTunnel takes no mutex and a Reconcile *)
(* may be starting a manager meanwhile: that one starts under the run      *)
(* context, which is cancelled (runLoop, Stop, reconcileTunnel, teardown). *)
(***************************************************************************)
THEOREM ProcessesCorrect == Spec => []ProcessesKept
<1>1. TypeOK /\ SlotInv /\ ProcInv /\ ExitInv => ProcessesKept
  <2> SUFFICES ASSUME TypeOK, SlotInv, ProcInv, ExitInv PROVE ProcessesKept
    OBVIOUS
  <2>1. ASSUME main = "exited", NEW k \in Kinds PROVE Done(k)
    BY <2>1 DEF ExitInv, Waiting, Kinds
  <2> QED
    BY <2>1 DEF ProcessesKept, ProcInv, Done
<1> QED
  BY <1>1, KeptCorrect, PTL

-----------------------------------------------------------------------------
(***************************************************************************)
(* The configuration.                                                      *)
(***************************************************************************)
LEMMA TodoStep == TypeOK /\ TodoInv /\ [Next]_vars => TodoInv'
<1> SUFFICES ASSUME TypeOK, TodoInv, [Next]_vars PROVE TodoInv'
  OBVIOUS
<1>1. ASSUME NEW m \in Modes, NEW b \in Memory, Patch(m, b) PROVE TodoInv'
  BY <1>1, TypeParts DEF Patch, tunnelVars, TodoInv
<1>2. CASE PatchReconciles
  BY <1>2, TypeParts, BeginFields DEF PatchReconciles, Begin, tunnelVars,
       TodoInv
<1>3. CASE Tick
  BY <1>3, TypeParts, BeginFields DEF Tick, Begin, tunnelVars, TodoInv
<1>4. ASSUME NEW c \in Caps, ReconcileCap(c) PROVE TodoInv'
  BY <1>4, TypeParts, CapFields DEF ReconcileCap, tunnelVars, TodoInv
<1>5. CASE CapsReconciled
  BY <1>5, TypeParts, CapsFields DEF CapsReconciled, tunnelVars, TodoInv
<1>6. ASSUME NEW k \in Kinds, TunnelStart(k) PROVE TodoInv'
  BY <1>6, PassFields DEF TunnelStart, TodoInv, Kinds
<1>7. ASSUME NEW k \in Kinds, TunnelKeep(k) PROVE TodoInv'
  BY <1>7, PassFields DEF TunnelKeep, TodoInv, Kinds
<1>8. ASSUME NEW k \in Kinds, TunnelStop(k) PROVE TodoInv'
  BY <1>8, TypeParts, StopFields DEF TunnelStop, NodeSame, Cancel, TodoInv
<1>9. ASSUME NEW k \in Kinds, TunnelStopped(k) PROVE TodoInv'
  BY <1>9, PassFields DEF TunnelStopped, TodoInv, Kinds
<1>10. CASE ReconcileURL
  BY <1>10, TypeParts, URLFields DEF ReconcileURL, NodeSame, tunnelVars,
       TodoInv
<1>11. CASE ReconcileSetURL
  BY <1>11, TypeParts, SetFields DEF ReconcileSetURL, tunnelVars, TodoInv
<1>12. ASSUME NEW k \in Kinds, CallbackMode(k) PROVE TodoInv'
  BY <1>12, TypeParts DEF CallbackMode, nodeVars, TodoInv
<1>13. ASSUME NEW k \in Kinds, CallbackPush(k) PROVE TodoInv'
  BY <1>13, TypeParts DEF CallbackPush, TodoInv
<1>14. ASSUME NEW k \in Kinds, Spawn(k), UNCHANGED nodeVars PROVE TodoInv'
  BY <1>14, TypeParts DEF Spawn, nodeVars, At, Goes, TodoInv
<1>15. ASSUME NEW k \in Kinds, NEW u \in URLsOf(k), Ready(k, u), UNCHANGED
    nodeVars PROVE TodoInv'
  BY <1>15, TypeParts DEF Ready, nodeVars, At, Goes, setURL, TodoInv
<1>16. ASSUME NEW k \in Kinds, SpawnFails(k), UNCHANGED nodeVars PROVE
    TodoInv'
  BY <1>16, TypeParts DEF SpawnFails, nodeVars, At, Goes, Reaped, TodoInv
<1>17. ASSUME NEW k \in Kinds, Exited(k), UNCHANGED nodeVars PROVE TodoInv'
  BY <1>17, TypeParts DEF Exited, nodeVars, At, Goes, setURL, TodoInv
<1>18. ASSUME NEW k \in Kinds, Terminate(k), UNCHANGED nodeVars PROVE TodoInv'
  BY <1>18, TypeParts DEF Terminate, nodeVars, At, Goes, setURL, Reaped,
       TodoInv
<1>19. ASSUME NEW k \in Kinds, LoopReturns(k), UNCHANGED nodeVars PROVE
    TodoInv'
  BY <1>19, TypeParts DEF LoopReturns, nodeVars, At, Goes, setURL, TodoInv
<1>20. ASSUME NEW k \in Kinds, ProcessDies(k), UNCHANGED nodeVars PROVE
    TodoInv'
  BY <1>20, TypeParts DEF ProcessDies, nodeVars, Reaped, TodoInv
<1>21. CASE Shutdown
  BY <1>21, TypeParts DEF Shutdown, Cancel, TodoInv
<1>22. CASE RunEnds
  BY <1>22, TypeParts DEF RunEnds, tunnelVars, TodoInv
<1>23. CASE StopCaps
  BY <1>23, TypeParts DEF StopCaps, tunnelVars, TodoInv
<1>24. CASE StopTunnel
  BY <1>24, TypeParts DEF StopTunnel, tunnelVars, TodoInv
<1>25. CASE AdminStopped
  BY <1>25, TypeParts DEF AdminStopped, tunnelVars, TodoInv
<1>26. CASE AdminGivesUp
  BY <1>26, TypeParts DEF AdminGivesUp, tunnelVars, TodoInv
<1>27. CASE UNCHANGED vars
  BY <1>27 DEF vars, nodeVars, tunnelVars, TodoInv
<1> QED
  BY <1>1, <1>2, <1>3, <1>4, <1>5, <1>6, <1>7, <1>8, <1>9, <1>10, <1>11,
       <1>12, <1>13, <1>14, <1>15, <1>16, <1>17, <1>18, <1>19, <1>20, <1>21,
       <1>22, <1>23, <1>24, <1>25, <1>26, <1>27 DEF Next, Runs, Reconciling,
       Calls, Loop, LoopRuns, Teardown, Finished

LEMMA FreshStep == TypeOK /\ SlotInv /\ TodoInv /\ FreshInv /\ [Next]_vars =>
    FreshInv'
<1> SUFFICES ASSUME TypeOK, SlotInv, TodoInv, FreshInv, [Next]_vars PROVE FreshInv'
  OBVIOUS
<1>1. ASSUME NEW m \in Modes, NEW b \in Memory, Patch(m, b) PROVE FreshInv'
  <2>1. owed' # 0
    BY <1>1, TypeParts, NodeAssumption DEF Patch
  <2> QED
    BY <2>1 DEF FreshInv
<1>2. CASE PatchReconciles
  <2>1. /\ rc'.at = "caps" /\ rc'.todo = Caps /\ rc'.snap = mode
        /\ UNCHANGED <<mode, capRunning>>
    BY <1>2, BeginFields DEF PatchReconciles, Begin
  <2> QED
    BY <2>1, TypeParts DEF FreshInv, Passed
<1>3. CASE Tick
  <2>1. /\ rc'.at = "caps" /\ rc'.todo = Caps /\ rc'.snap = mode
        /\ UNCHANGED <<mode, capRunning>>
    BY <1>3, BeginFields DEF Tick, Begin
  <2> QED
    BY <2>1, TypeParts DEF FreshInv, Passed
<1>4. ASSUME NEW c \in Caps, ReconcileCap(c) PROVE FreshInv'
  <2>1. /\ rc.at = "caps" /\ rc'.at = "caps" /\ rc'.todo = rc.todo \ {c}
        /\ rc'.snap = rc.snap /\ UNCHANGED <<mode, memory, owed>>
    BY <1>4, CapFields DEF ReconcileCap
  <2>2. /\ capRunning' \ {c} \subseteq capRunning
        /\ c \in capRunning' => Enabled(c)
    BY <1>4 DEF ReconcileCap
  <2>3. \A x : Enabled(x)' <=> Enabled(x)
    BY <2>1 DEF Enabled
  <2>4. owed = 0 => \A x \in capRunning' \ rc'.todo : Enabled(x)'
    BY <2>1, <2>2, <2>3 DEF FreshInv
  <2> QED
    BY <2>1, <2>4 DEF FreshInv, Passed
<1>5. CASE CapsReconciled
  <2>1. /\ rc.at = "caps" /\ rc'.at = "quick" /\ rc'.todo = rc.todo /\ rc'.snap = rc.snap
        /\ UNCHANGED <<mode, memory, owed, capRunning>>
    BY <1>5, CapsFields DEF CapsReconciled
  <2> QED
    BY <2>1 DEF FreshInv, Passed, Enabled
<1>6. ASSUME NEW k \in Kinds, TunnelStart(k) PROVE FreshInv'
  <2>1. /\ rc.at = k /\ rc'.at = After(k) /\ rc'.todo = rc.todo /\ rc'.snap = rc.snap
        /\ After(k) \in {"managed", "url"} /\ (After(k) = "managed" => k = "quick")
        /\ UNCHANGED <<mode, memory, owed, capRunning>>
    BY <1>6, PassFields DEF TunnelStart, NodeSame
  <2>2. \A j \in Kinds : Passed(j)' => j = k \/ Passed(j)
    BY <2>1 DEF Passed, Kinds, After
  <2>3. \A c \in capRunning' \ rc'.todo : owed = 0 => Enabled(c)'
    BY <2>1 DEF FreshInv, Enabled
  <2>4. /\ rc.snap = k /\ slot' \subseteq slot \cup {k} /\ UNCHANGED cb
        /\ \A j \in Kinds \ {k} : loop'[j] = loop[j]
    BY <1>6, TypeParts DEF TunnelStart, Want, Start, Goes, TunnelTypeOK
  <2>5. owed = 0 => \A j \in Kinds : j # mode /\ Passed(j)' => j \notin slot' /\ Done(j)'
    BY <2>1, <2>2, <2>4 DEF FreshInv, Done, Kinds
  <2> QED
    BY <2>1, <2>3, <2>5 DEF FreshInv, Kinds
<1>7. ASSUME NEW k \in Kinds, TunnelKeep(k) PROVE FreshInv'
  <2>1. /\ rc.at = k /\ rc'.at = After(k) /\ rc'.todo = rc.todo /\ rc'.snap = rc.snap
        /\ After(k) \in {"managed", "url"} /\ (After(k) = "managed" => k = "quick")
        /\ UNCHANGED <<mode, memory, owed, capRunning>>
    BY <1>7, PassFields DEF TunnelKeep, NodeSame
  <2>2. \A j \in Kinds : Passed(j)' => j = k \/ Passed(j)
    BY <2>1 DEF Passed, Kinds, After
  <2>3. \A c \in capRunning' \ rc'.todo : owed = 0 => Enabled(c)'
    BY <2>1 DEF FreshInv, Enabled
  <2>4. UNCHANGED <<slot, loop, cb>> /\ (rc.snap # k => k \notin slot /\ Done(k))
    BY <1>7 DEF TunnelKeep, SlotInv, Waiting, Want, tunnelVars
  <2>5. owed = 0 => \A j \in Kinds : j # mode /\ Passed(j)' => j \notin slot' /\ Done(j)'
    BY <2>1, <2>2, <2>4 DEF FreshInv, Done, Kinds
  <2> QED
    BY <2>1, <2>3, <2>5 DEF FreshInv, Kinds
<1>8. ASSUME NEW k \in Kinds, TunnelStop(k) PROVE FreshInv'
  <2>1. /\ rc.at = k /\ rc'.at = k /\ rc'.todo = rc.todo /\ rc'.snap = rc.snap
        /\ slot' \subseteq slot
        /\ UNCHANGED <<mode, memory, owed, capRunning, loop, cb>>
    BY <1>8, StopFields DEF TunnelStop, NodeSame
  <2> QED
    BY <2>1 DEF FreshInv, Passed, Done, Enabled, Kinds
<1>9. ASSUME NEW k \in Kinds, TunnelStopped(k) PROVE FreshInv'
  <2>1. /\ rc.at = k /\ rc'.at = After(k) /\ rc'.todo = rc.todo /\ rc'.snap = rc.snap
        /\ After(k) \in {"managed", "url"} /\ (After(k) = "managed" => k = "quick")
        /\ UNCHANGED <<mode, memory, owed, capRunning>>
    BY <1>9, PassFields DEF TunnelStopped, NodeSame
  <2>2. \A j \in Kinds : Passed(j)' => j = k \/ Passed(j)
    BY <2>1 DEF Passed, Kinds, After
  <2>3. \A c \in capRunning' \ rc'.todo : owed = 0 => Enabled(c)'
    BY <2>1 DEF FreshInv, Enabled
  <2>4. UNCHANGED <<slot, loop, cb>> /\ k \notin slot /\ Done(k)
    BY <1>9, TypeParts DEF TunnelStopped, ReconcileOK, tunnelVars
  <2>5. owed = 0 => \A j \in Kinds : j # mode /\ Passed(j)' => j \notin slot' /\ Done(j)'
    BY <2>1, <2>2, <2>4 DEF FreshInv, Done, Kinds
  <2> QED
    BY <2>1, <2>3, <2>5 DEF FreshInv, Kinds
<1>10. CASE ReconcileURL
  <2>1. /\ rc.at = "url" /\ rc'.at = "set" /\ rc'.todo = rc.todo /\ rc'.snap = rc.snap
        /\ rc'.url = DesiredURL(rc.snap)
        /\ UNCHANGED <<mode, memory, owed, capRunning, slot, loop, cb>>
    BY <1>10, URLFields DEF ReconcileURL, NodeSame, tunnelVars
  <2>2. owed = 0 => rc'.url \in ModeURLs(mode)
    BY <2>1, TypeParts, DesiredURLIn DEF FreshInv
  <2>3. ModeURLs(mode)' = ModeURLs(mode)
    BY <2>1 DEF ModeURLs
  <2> QED
    BY <2>1, <2>2, <2>3 DEF FreshInv, Passed, Done, Enabled
<1>11. CASE ReconcileSetURL
  <2>1. /\ rc.at = "set" /\ rc'.at = "idle" /\ regURL' = rc.url
        /\ rc.todo = {}
        /\ UNCHANGED <<mode, memory, owed, capRunning, slot, loop, cb, main>>
    BY <1>11, SetFields DEF ReconcileSetURL, TodoInv, tunnelVars
  <2>2. ModeURLs(mode)' = ModeURLs(mode)
    BY <2>1 DEF ModeURLs
  <2> QED
    BY <2>1, <2>2 DEF FreshInv, Passed, Done, Enabled
<1>12. ASSUME NEW k \in Kinds, CallbackMode(k) PROVE FreshInv'
  <2>1. ~Done(k) /\ \A j \in Kinds \ {k} : loop'[j] = loop[j] /\ cb'[j] = cb[j]
    BY <1>12, TypeParts DEF CallbackMode, nodeVars, Done, TunnelTypeOK
  <2>2. UNCHANGED <<rc, main, mode, memory, owed, capRunning, slot, regURL>>
    BY <1>12 DEF CallbackMode, nodeVars
  <2>3. ModeURLs(mode)' = ModeURLs(mode)
    BY <2>2 DEF ModeURLs
  <2> QED
    BY <2>1, <2>2, <2>3 DEF FreshInv, Passed, Done, Enabled
<1>13. ASSUME NEW k \in Kinds, CallbackPush(k) PROVE FreshInv'
  <2>1. /\ ~Done(k) /\ \A j \in Kinds \ {k} : loop'[j] = loop[j] /\ cb'[j] = cb[j]
        /\ regURL' = url[k]
    BY <1>13, TypeParts DEF CallbackPush, Done, TunnelTypeOK
  <2>2. UNCHANGED <<rc, main, mode, memory, owed, capRunning, slot>>
    BY <1>13 DEF CallbackPush
  <2>3. ModeURLs(mode)' = ModeURLs(mode)
    BY <2>2 DEF ModeURLs
  <2>4. url[k] \in ModeURLs(k)
    <3>1. url[k] \in URLsOf(k) \cup {NoURL}
      BY TypeParts DEF TunnelTypeOK
    <3>2. k \in Kinds /\ k # "external"
      BY DEF Kinds
    <3> QED
      BY <3>1, <3>2 DEF ModeURLs
  <2>5. owed = 0 /\ rc.at = "idle" => mode = k
    BY <2>1 DEF FreshInv, Passed
  <2> QED
    BY <2>1, <2>2, <2>3, <2>4, <2>5 DEF FreshInv, Passed, Done, Enabled
<1>14. ASSUME NEW k \in Kinds, Spawn(k), UNCHANGED nodeVars PROVE FreshInv'
  <2>1. ~Done(k) /\ \A j \in Kinds \ {k} : loop'[j] = loop[j] /\ cb'[j] = cb[j]
    BY <1>14, TypeParts DEF Spawn, nodeVars, At, Goes, Done, TunnelTypeOK
  <2>2. UNCHANGED <<rc, main, mode, memory, owed, capRunning, slot, regURL>>
    BY <1>14 DEF Spawn, nodeVars
  <2>3. ModeURLs(mode)' = ModeURLs(mode)
    BY <2>2 DEF ModeURLs
  <2> QED
    BY <2>1, <2>2, <2>3 DEF FreshInv, Passed, Done, Enabled
<1>15. ASSUME NEW k \in Kinds, NEW u \in URLsOf(k), Ready(k, u), UNCHANGED
    nodeVars PROVE FreshInv'
  <2>1. ~Done(k) /\ \A j \in Kinds \ {k} : loop'[j] = loop[j] /\ cb'[j] = cb[j]
    BY <1>15, TypeParts DEF Ready, nodeVars, At, Goes, setURL, Done,
         TunnelTypeOK
  <2>2. UNCHANGED <<rc, main, mode, memory, owed, capRunning, slot, regURL>>
    BY <1>15 DEF Ready, nodeVars
  <2>3. ModeURLs(mode)' = ModeURLs(mode)
    BY <2>2 DEF ModeURLs
  <2> QED
    BY <2>1, <2>2, <2>3 DEF FreshInv, Passed, Done, Enabled
<1>16. ASSUME NEW k \in Kinds, SpawnFails(k), UNCHANGED nodeVars PROVE
    FreshInv'
  <2>1. ~Done(k) /\ \A j \in Kinds \ {k} : loop'[j] = loop[j] /\ cb'[j] = cb[j]
    BY <1>16, TypeParts DEF SpawnFails, nodeVars, At, Goes, Reaped, Done,
         TunnelTypeOK
  <2>2. UNCHANGED <<rc, main, mode, memory, owed, capRunning, slot, regURL>>
    BY <1>16 DEF SpawnFails, nodeVars
  <2>3. ModeURLs(mode)' = ModeURLs(mode)
    BY <2>2 DEF ModeURLs
  <2> QED
    BY <2>1, <2>2, <2>3 DEF FreshInv, Passed, Done, Enabled
<1>17. ASSUME NEW k \in Kinds, Exited(k), UNCHANGED nodeVars PROVE FreshInv'
  <2>1. ~Done(k) /\ \A j \in Kinds \ {k} : loop'[j] = loop[j] /\ cb'[j] = cb[j]
    BY <1>17, TypeParts DEF Exited, nodeVars, At, Goes, setURL, Done,
         TunnelTypeOK
  <2>2. UNCHANGED <<rc, main, mode, memory, owed, capRunning, slot, regURL>>
    BY <1>17 DEF Exited, nodeVars
  <2>3. ModeURLs(mode)' = ModeURLs(mode)
    BY <2>2 DEF ModeURLs
  <2> QED
    BY <2>1, <2>2, <2>3 DEF FreshInv, Passed, Done, Enabled
<1>18. ASSUME NEW k \in Kinds, Terminate(k), UNCHANGED nodeVars PROVE
    FreshInv'
  <2>1. ~Done(k) /\ \A j \in Kinds \ {k} : loop'[j] = loop[j] /\ cb'[j] = cb[j]
    BY <1>18, TypeParts DEF Terminate, nodeVars, At, Goes, setURL, Reaped,
         Done, TunnelTypeOK
  <2>2. UNCHANGED <<rc, main, mode, memory, owed, capRunning, slot, regURL>>
    BY <1>18 DEF Terminate, nodeVars
  <2>3. ModeURLs(mode)' = ModeURLs(mode)
    BY <2>2 DEF ModeURLs
  <2> QED
    BY <2>1, <2>2, <2>3 DEF FreshInv, Passed, Done, Enabled
<1>19. ASSUME NEW k \in Kinds, LoopReturns(k), UNCHANGED nodeVars PROVE
    FreshInv'
  <2>1. ~Done(k) /\ \A j \in Kinds \ {k} : loop'[j] = loop[j] /\ cb'[j] = cb[j]
    BY <1>19, TypeParts DEF LoopReturns, nodeVars, At, Goes, setURL, Done,
         TunnelTypeOK
  <2>2. UNCHANGED <<rc, main, mode, memory, owed, capRunning, slot, regURL>>
    BY <1>19 DEF LoopReturns, nodeVars
  <2>3. ModeURLs(mode)' = ModeURLs(mode)
    BY <2>2 DEF ModeURLs
  <2> QED
    BY <2>1, <2>2, <2>3 DEF FreshInv, Passed, Done, Enabled
<1>20. ASSUME NEW k \in Kinds, ProcessDies(k), UNCHANGED nodeVars PROVE
    FreshInv'
  <2>1. /\ UNCHANGED <<rc, mode, memory, owed, loop, cb, regURL>>
        /\ slot' \subseteq slot /\ capRunning' \subseteq capRunning
        /\ main' # "starting" => main # "starting"
    BY <1>20 DEF ProcessDies, nodeVars, Reaped, nodeVars, tunnelVars
  <2>2. ModeURLs(mode)' = ModeURLs(mode)
    BY <2>1 DEF ModeURLs
  <2> QED
    BY <2>1, <2>2 DEF FreshInv, Passed, Done, Enabled
<1>21. CASE Shutdown
  <2>1. /\ UNCHANGED <<rc, mode, memory, owed, loop, cb, regURL>>
        /\ slot' \subseteq slot /\ capRunning' \subseteq capRunning
        /\ main' # "starting" => main # "starting"
    BY <1>21 DEF Shutdown, Cancel, nodeVars, tunnelVars
  <2>2. ModeURLs(mode)' = ModeURLs(mode)
    BY <2>1 DEF ModeURLs
  <2> QED
    BY <2>1, <2>2 DEF FreshInv, Passed, Done, Enabled
<1>22. CASE RunEnds
  <2>1. /\ UNCHANGED <<rc, mode, memory, owed, loop, cb, regURL>>
        /\ slot' \subseteq slot /\ capRunning' \subseteq capRunning
        /\ main' # "starting" => main # "starting"
    BY <1>22 DEF RunEnds, nodeVars, tunnelVars
  <2>2. ModeURLs(mode)' = ModeURLs(mode)
    BY <2>1 DEF ModeURLs
  <2> QED
    BY <2>1, <2>2 DEF FreshInv, Passed, Done, Enabled
<1>23. CASE StopCaps
  <2>1. /\ UNCHANGED <<rc, mode, memory, owed, loop, cb, regURL>>
        /\ slot' \subseteq slot /\ capRunning' \subseteq capRunning
        /\ main' # "starting" => main # "starting"
    BY <1>23 DEF StopCaps, nodeVars, tunnelVars
  <2>2. ModeURLs(mode)' = ModeURLs(mode)
    BY <2>1 DEF ModeURLs
  <2> QED
    BY <2>1, <2>2 DEF FreshInv, Passed, Done, Enabled
<1>24. CASE StopTunnel
  <2>1. /\ UNCHANGED <<rc, mode, memory, owed, loop, cb, regURL>>
        /\ slot' \subseteq slot /\ capRunning' \subseteq capRunning
        /\ main' # "starting" => main # "starting"
    BY <1>24 DEF StopTunnel, nodeVars, tunnelVars
  <2>2. ModeURLs(mode)' = ModeURLs(mode)
    BY <2>1 DEF ModeURLs
  <2> QED
    BY <2>1, <2>2 DEF FreshInv, Passed, Done, Enabled
<1>25. CASE AdminStopped
  <2>1. /\ UNCHANGED <<rc, mode, memory, owed, loop, cb, regURL>>
        /\ slot' \subseteq slot /\ capRunning' \subseteq capRunning
        /\ main' # "starting" => main # "starting"
    BY <1>25 DEF AdminStopped, nodeVars, tunnelVars
  <2>2. ModeURLs(mode)' = ModeURLs(mode)
    BY <2>1 DEF ModeURLs
  <2> QED
    BY <2>1, <2>2 DEF FreshInv, Passed, Done, Enabled
<1>26. CASE AdminGivesUp
  <2>1. /\ UNCHANGED <<rc, mode, memory, owed, loop, cb, regURL>>
        /\ slot' \subseteq slot /\ capRunning' \subseteq capRunning
        /\ main' # "starting" => main # "starting"
    BY <1>26 DEF AdminGivesUp, nodeVars, tunnelVars
  <2>2. ModeURLs(mode)' = ModeURLs(mode)
    BY <2>1 DEF ModeURLs
  <2> QED
    BY <2>1, <2>2 DEF FreshInv, Passed, Done, Enabled
<1>27. CASE UNCHANGED vars
  <2>1. ModeURLs(mode)' = ModeURLs(mode)
    BY <1>27 DEF ModeURLs, vars, nodeVars
  <2> QED
    BY <1>27, <2>1 DEF FreshInv, Passed, Done, Enabled, vars, nodeVars,
         tunnelVars
<1> QED
  BY <1>1, <1>2, <1>3, <1>4, <1>5, <1>6, <1>7, <1>8, <1>9, <1>10, <1>11,
       <1>12, <1>13, <1>14, <1>15, <1>16, <1>17, <1>18, <1>19, <1>20, <1>21,
       <1>22, <1>23, <1>24, <1>25, <1>26, <1>27 DEF Next, Runs, Reconciling,
       Calls, Loop, LoopRuns, Teardown, Finished

LEMMA FreshCorrect == Spec => [](TodoInv /\ FreshInv)
<1>1. Init => TodoInv /\ FreshInv
  BY NoReconcileFields DEF Init, TunnelInit, TodoInv, FreshInv, Done
<1> QED
  BY <1>1, KeptCorrect, TodoStep, FreshStep, PTL DEF Spec

(***************************************************************************)
(* With every patch reconciled, the URL, the tunnels and the capabilities  *)
(* are those of the configuration, for any number of overlapping patches   *)
(* and ticks: the snapshot Reconcile works from is the last patch's        *)
(* configuration, and a callback of another mode's manager ends before its *)
(* Stop returns (Reconcile, reconcileTunnel, onTunnelURLChange).           *)
(***************************************************************************)
THEOREM SettledCorrect == Spec => []SettledOnConfig
<1>1. TypeOK /\ SlotInv /\ ProcInv /\ ExitInv /\ TodoInv /\ FreshInv => SettledOnConfig
  <2> SUFFICES ASSUME TypeOK, ProcInv, TodoInv, FreshInv, Quiet
               PROVE  /\ regURL \in ModeURLs(mode)
                      /\ \A k \in Kinds : mode # k => procs[k] = 0
                      /\ \A c \in capRunning : Enabled(c)
    BY DEF SettledOnConfig, ModeURLs
  <2>1. rc.at = "idle" /\ rc.todo = {} /\ main = "running" /\ owed = 0
    BY NoReconcileFields DEF Quiet
  <2>2. \A k \in Kinds : mode # k => Done(k)
    BY <2>1 DEF FreshInv, Passed
  <2> QED
    BY <2>1, <2>2 DEF FreshInv, ProcInv, Done
<1> QED
  BY <1>1, KeptCorrect, FreshCorrect, PTL
=============================================================================
