--------------------------- MODULE ComputeProofs ---------------------------
(***************************************************************************)
(* Proofs about Compute, for every number of processes and models.         *)
(***************************************************************************)
EXTENDS Compute, TLAPS

-----------------------------------------------------------------------------
(***************************************************************************)
(* The inductive invariant.  ServersAccounted and AdvertWithdrawn are      *)
(* inductive as they stand, but for the types.                             *)
(***************************************************************************)
\* What can still set a model, or has, although the capability is stopped, was
\* past its started check when the stop came.
ModelInv == ~started /\ (looking \/ model # NoModel) => late

-----------------------------------------------------------------------------
(***************************************************************************)
(* Types.                                                                  *)
(***************************************************************************)
LEMMA TypeStep == TypeOK /\ [Next]_vars => TypeOK'
<1> SUFFICES ASSUME TypeOK, [Next]_vars PROVE TypeOK'
  OBVIOUS
<1>1. CASE Start
  BY OllamaAssumption, <1>1 DEF Start, Goes, TypeOK, OllamaTypeOK,
       BonjourTypeOK, Ensuring, Callers, Alive, TXT, ollamaVars, bonjourVars,
       capVars
<1>2. CASE StartFails
  BY OllamaAssumption, <1>2 DEF StartFails, Goes, TypeOK, OllamaTypeOK,
       BonjourTypeOK, Ensuring, Callers, Alive, TXT, ollamaVars, bonjourVars,
       capVars
<1>3. CASE StartSucceeds
  <2>1. OllamaTypeOK'
    BY <1>3 DEF StartSucceeds, TypeOK, OllamaTypeOK, ollamaVars, Goes,
         Callers, Ensuring
  <2>2. BonjourTypeOK'
    BY <1>3 DEF StartSucceeds, TypeOK, BonjourTypeOK, bonjourVars
  <2> QED
    BY <1>3, <2>1, <2>2 DEF StartSucceeds, TypeOK
<1>4. CASE ReconcileStops
  BY OllamaAssumption, <1>4, ZenonT(60) DEF ReconcileStops, Stop,
       managerStop, TypeOK,
       OllamaTypeOK, BonjourTypeOK, Ensuring, Callers, Alive, TXT, ollamaVars,
       bonjourVars, capVars
<1>5. CASE Teardown
  BY OllamaAssumption, <1>5, ZenonT(60) DEF Teardown, Stop, managerStop,
       TypeOK,
       OllamaTypeOK, BonjourTypeOK, Ensuring, Callers, Alive, TXT, ollamaVars,
       bonjourVars, capVars
<1>6. CASE Toggle
  BY OllamaAssumption, <1>6 DEF Toggle, TypeOK, OllamaTypeOK, BonjourTypeOK,
       Ensuring, Callers, Alive, TXT, ollamaVars, bonjourVars, capVars
<1>7. CASE Shutdown
  BY OllamaAssumption, <1>7 DEF Shutdown, TypeOK, OllamaTypeOK, BonjourTypeOK,
       Ensuring, Callers, Alive, TXT, ollamaVars, bonjourVars, capVars
<1>8. CASE Look
  BY OllamaAssumption, <1>8 DEF Look, TypeOK, OllamaTypeOK, BonjourTypeOK,
       Ensuring, Callers, Alive, TXT, ollamaVars, bonjourVars, capVars
<1>9. CASE LookWrites
  <2>1. OllamaTypeOK'
    BY <1>9 DEF LookWrites, TypeOK, OllamaTypeOK, ollamaVars
  <2>2. BonjourTypeOK'
    BY <1>9 DEF LookWrites, TypeOK, BonjourTypeOK, bonjourVars
  <2> QED
    BY <1>9, <2>1, <2>2 DEF LookWrites, TypeOK
<1>10. CASE LookFails
  <2>1. OllamaTypeOK'
    BY <1>10 DEF LookFails, TypeOK, OllamaTypeOK, ollamaVars
  <2>2. BonjourTypeOK'
    BY <1>10 DEF LookFails, TypeOK, BonjourTypeOK, bonjourVars
  <2> QED
    BY <1>10, <2>1, <2>2 DEF LookFails, TypeOK
<1>11. CASE StartPull
  BY OllamaAssumption, <1>11 DEF StartPull, Goes, TypeOK, OllamaTypeOK,
       BonjourTypeOK, Ensuring, Callers, Alive, TXT, ollamaVars, bonjourVars,
       capVars
<1>12. CASE PullEnds
  BY OllamaAssumption, <1>12 DEF PullEnds, Goes, TypeOK, OllamaTypeOK,
       BonjourTypeOK, Ensuring, Callers, Alive, TXT, ollamaVars, bonjourVars,
       capVars
<1>13. ASSUME NEW a \in Callers, Ensure(a) PROVE TypeOK'
  BY OllamaAssumption, <1>13 DEF Ensure, EnsureSteps, Probe, NoSpawn,
       WaitReady, Spawn, Goes, Callers, TypeOK, OllamaTypeOK, BonjourTypeOK,
       Ensuring, Alive, TXT, ollamaVars, bonjourVars, capVars
<1>14. CASE Processes
  <2>1. proc' \in [Procs -> Alive \cup {"none", "stopping", "exited"}]
           /\ cmd' \in Procs \cup {NoProc} /\ stray' \subseteq Procs
    BY <1>14 DEF Processes, Serve, Exit, Reap, OtherServer, TypeOK,
         OllamaTypeOK, Alive
  <2>2. other' \in BOOLEAN /\ UNCHANGED ens
    BY <1>14 DEF Processes, Serve, Exit, Reap, OtherServer, TypeOK,
         OllamaTypeOK
  <2>3. BonjourTypeOK'
    BY <1>14 DEF Processes, TypeOK, BonjourTypeOK, bonjourVars
  <2> QED
    BY <1>14, <2>1, <2>2, <2>3 DEF Processes, TypeOK, OllamaTypeOK
<1>15. CASE Advertises
  <2>1. device' \in {Id, NoId}
    BY <1>15 DEF Advertises, LanStart, LanStop, Watch, WatcherReturns,
         ToggleLan,
       reconcileBonjour, bonjourDeviceID, TypeOK, BonjourTypeOK
  <2>2. advert' \in TXT \cup {NoTXT} /\ UNCHANGED model
    <3>1. [model |-> model, device |-> device'] \in TXT
      BY <2>1 DEF TypeOK, BonjourTypeOK, TXT
    <3> QED
      BY <1>15, <3>1 DEF Advertises, LanStart, LanStop, Watch, WatcherReturns,
         ToggleLan, reconcileBonjour, TypeOK, BonjourTypeOK
  <2>3. lanEnabled' \in BOOLEAN /\ server' \in BOOLEAN /\ doomed' \in BOOLEAN
    BY <1>15 DEF Advertises, LanStart, LanStop, Watch, WatcherReturns,
         ToggleLan,
       TypeOK, BonjourTypeOK
  <2> QED
    BY <1>15, <2>1, <2>2, <2>3
      DEF Advertises, ollamaVars, capVars, TypeOK, OllamaTypeOK, BonjourTypeOK
<1>16. CASE UNCHANGED vars
  BY OllamaAssumption, <1>16 DEF vars, TypeOK, OllamaTypeOK, BonjourTypeOK,
       Ensuring, Callers, Alive, TXT, ollamaVars, bonjourVars, capVars
<1> QED
  BY <1>1, <1>2, <1>3, <1>4, <1>5, <1>6, <1>7, <1>8, <1>9, <1>10, <1>11,
       <1>12, <1>13, <1>14, <1>15, <1>16 DEF Next

LEMMA ServersStep == TypeOK /\ ServersAccounted /\ [Next]_vars =>
    ServersAccounted'
<1> SUFFICES ASSUME TypeOK, ServersAccounted, [Next]_vars PROVE ServersAccounted'
  OBVIOUS
<1>1. CASE Start
  BY OllamaAssumption, <1>1 DEF Start, Goes, ServersAccounted, TypeOK,
       OllamaTypeOK, Callers, Alive, Ensuring, ollamaVars, bonjourVars,
       capVars
<1>2. CASE StartFails
  BY OllamaAssumption, <1>2 DEF StartFails, Goes, ServersAccounted, TypeOK,
       OllamaTypeOK, Callers, Alive, Ensuring, ollamaVars, bonjourVars,
       capVars
<1>3. CASE StartSucceeds
  BY OllamaAssumption, <1>3 DEF StartSucceeds, Goes, ServersAccounted, TypeOK,
       OllamaTypeOK, Callers, Alive, Ensuring, ollamaVars, bonjourVars,
       capVars
<1>4. CASE ReconcileStops
  BY OllamaAssumption, <1>4 DEF ReconcileStops, Stop, managerStop,
       ServersAccounted, TypeOK, OllamaTypeOK, Callers, Alive, Ensuring,
       ollamaVars, bonjourVars, capVars
<1>5. CASE Teardown
  BY OllamaAssumption, <1>5 DEF Teardown, Stop, managerStop, ServersAccounted,
       TypeOK, OllamaTypeOK, Callers, Alive, Ensuring, ollamaVars,
       bonjourVars, capVars
<1>6. CASE Toggle
  BY OllamaAssumption, <1>6 DEF Toggle, ServersAccounted, TypeOK,
       OllamaTypeOK, Callers, Alive, Ensuring, ollamaVars, bonjourVars,
       capVars
<1>7. CASE Shutdown
  BY OllamaAssumption, <1>7 DEF Shutdown, ServersAccounted, TypeOK,
       OllamaTypeOK, Callers, Alive, Ensuring, ollamaVars, bonjourVars,
       capVars
<1>8. CASE Look
  BY OllamaAssumption, <1>8 DEF Look, ServersAccounted, TypeOK, OllamaTypeOK,
       Callers, Alive, Ensuring, ollamaVars, bonjourVars, capVars
<1>9. CASE LookWrites
  BY OllamaAssumption, <1>9 DEF LookWrites, ServersAccounted, TypeOK,
       OllamaTypeOK, Callers, Alive, Ensuring, ollamaVars, bonjourVars,
       capVars
<1>10. CASE LookFails
  BY OllamaAssumption, <1>10 DEF LookFails, ServersAccounted, TypeOK,
       OllamaTypeOK, Callers, Alive, Ensuring, ollamaVars, bonjourVars,
       capVars
<1>11. CASE StartPull
  BY OllamaAssumption, <1>11 DEF StartPull, Goes, ServersAccounted, TypeOK,
       OllamaTypeOK, Callers, Alive, Ensuring, ollamaVars, bonjourVars,
       capVars
<1>12. CASE PullEnds
  BY OllamaAssumption, <1>12 DEF PullEnds, Goes, ServersAccounted, TypeOK,
       OllamaTypeOK, Callers, Alive, Ensuring, ollamaVars, bonjourVars,
       capVars
<1>13. ASSUME NEW a \in Callers, Ensure(a) PROVE ServersAccounted'
  BY OllamaAssumption, <1>13 DEF Ensure, EnsureSteps, Probe, NoSpawn,
       WaitReady, Spawn, Goes, Callers, ServersAccounted, TypeOK,
       OllamaTypeOK, Alive, Ensuring, ollamaVars, bonjourVars, capVars
<1>14. CASE Processes
  BY OllamaAssumption, <1>14 DEF Processes, Serve, Exit, Reap, OtherServer,
       ServersAccounted, TypeOK, OllamaTypeOK, Callers, Alive, Ensuring,
       ollamaVars, bonjourVars, capVars
<1>15. CASE Advertises
  BY OllamaAssumption, <1>15 DEF Advertises, LanStart, LanStop, Watch,
       WatcherReturns, ToggleLan, reconcileBonjour, bonjourDeviceID,
       ServersAccounted, TypeOK, OllamaTypeOK, Callers, Alive, Ensuring,
       ollamaVars, bonjourVars, capVars
<1>16. CASE UNCHANGED vars
  BY OllamaAssumption, <1>16 DEF vars, ServersAccounted, TypeOK, OllamaTypeOK,
       Callers, Alive, Ensuring, ollamaVars, bonjourVars, capVars
<1> QED
  BY <1>1, <1>2, <1>3, <1>4, <1>5, <1>6, <1>7, <1>8, <1>9, <1>10, <1>11,
       <1>12, <1>13, <1>14, <1>15, <1>16 DEF Next

LEMMA ModelStep == ModelInv /\ [Next]_vars => ModelInv'
<1> SUFFICES ASSUME ModelInv, [Next]_vars PROVE ModelInv'
  OBVIOUS
<1>1. CASE Start
  BY <1>1 DEF Start, Goes, ModelInv, ollamaVars, bonjourVars, capVars
<1>2. CASE StartFails
  BY <1>2 DEF StartFails, Goes, ModelInv, ollamaVars, bonjourVars, capVars
<1>3. CASE StartSucceeds
  BY <1>3 DEF StartSucceeds, Goes, ModelInv, ollamaVars, bonjourVars, capVars
<1>4. CASE ReconcileStops
  BY <1>4 DEF ReconcileStops, Stop, managerStop, ModelInv, ollamaVars,
       bonjourVars, capVars
<1>5. CASE Teardown
  BY <1>5 DEF Teardown, Stop, managerStop, ModelInv, ollamaVars, bonjourVars,
       capVars
<1>6. CASE Toggle
  BY <1>6 DEF Toggle, ModelInv, ollamaVars, bonjourVars, capVars
<1>7. CASE Shutdown
  BY <1>7 DEF Shutdown, ModelInv, ollamaVars, bonjourVars, capVars
<1>8. CASE Look
  BY <1>8 DEF Look, ModelInv, ollamaVars, bonjourVars, capVars
<1>9. CASE LookWrites
  BY <1>9 DEF LookWrites, ModelInv, ollamaVars, bonjourVars, capVars
<1>10. CASE LookFails
  BY <1>10 DEF LookFails, ModelInv, ollamaVars, bonjourVars, capVars
<1>11. CASE StartPull
  BY <1>11 DEF StartPull, Goes, ModelInv, ollamaVars, bonjourVars, capVars
<1>12. CASE PullEnds
  BY <1>12 DEF PullEnds, Goes, ModelInv, ollamaVars, bonjourVars, capVars
<1>13. ASSUME NEW a \in Callers, Ensure(a) PROVE ModelInv'
  BY <1>13 DEF Ensure, EnsureSteps, Probe, NoSpawn, WaitReady, Spawn, Goes,
       Callers, ModelInv, ollamaVars, bonjourVars, capVars
<1>14. CASE Processes
  BY <1>14 DEF Processes, Serve, Exit, Reap, OtherServer, ModelInv,
       ollamaVars, bonjourVars, capVars
<1>15. CASE Advertises
  BY <1>15 DEF Advertises, LanStart, LanStop, Watch, WatcherReturns,
       ToggleLan, reconcileBonjour, bonjourDeviceID, ModelInv, ollamaVars,
       bonjourVars, capVars
<1>16. CASE UNCHANGED vars
  BY <1>16 DEF vars, ModelInv, ollamaVars, bonjourVars, capVars
<1> QED
  BY <1>1, <1>2, <1>3, <1>4, <1>5, <1>6, <1>7, <1>8, <1>9, <1>10, <1>11,
       <1>12, <1>13, <1>14, <1>15, <1>16 DEF Next

LEMMA AdvertStep == AdvertWithdrawn /\ [Next]_vars => AdvertWithdrawn'
<1> SUFFICES ASSUME AdvertWithdrawn, [Next]_vars PROVE AdvertWithdrawn'
  OBVIOUS
<1>1. CASE Start
  BY <1>1 DEF Start, Goes, AdvertWithdrawn, ollamaVars, bonjourVars, capVars
<1>2. CASE StartFails
  BY <1>2 DEF StartFails, Goes, AdvertWithdrawn, ollamaVars, bonjourVars,
       capVars
<1>3. CASE StartSucceeds
  BY <1>3 DEF StartSucceeds, Goes, AdvertWithdrawn, ollamaVars, bonjourVars,
       capVars
<1>4. CASE ReconcileStops
  BY <1>4 DEF ReconcileStops, Stop, managerStop, AdvertWithdrawn, ollamaVars,
       bonjourVars, capVars
<1>5. CASE Teardown
  BY <1>5 DEF Teardown, Stop, managerStop, AdvertWithdrawn, ollamaVars,
       bonjourVars, capVars
<1>6. CASE Toggle
  BY <1>6 DEF Toggle, AdvertWithdrawn, ollamaVars, bonjourVars, capVars
<1>7. CASE Shutdown
  BY <1>7 DEF Shutdown, AdvertWithdrawn, ollamaVars, bonjourVars, capVars
<1>8. CASE Look
  BY <1>8 DEF Look, AdvertWithdrawn, ollamaVars, bonjourVars, capVars
<1>9. CASE LookWrites
  BY <1>9 DEF LookWrites, AdvertWithdrawn, ollamaVars, bonjourVars, capVars
<1>10. CASE LookFails
  BY <1>10 DEF LookFails, AdvertWithdrawn, ollamaVars, bonjourVars, capVars
<1>11. CASE StartPull
  BY <1>11 DEF StartPull, Goes, AdvertWithdrawn, ollamaVars, bonjourVars,
       capVars
<1>12. CASE PullEnds
  BY <1>12 DEF PullEnds, Goes, AdvertWithdrawn, ollamaVars, bonjourVars,
       capVars
<1>13. ASSUME NEW a \in Callers, Ensure(a) PROVE AdvertWithdrawn'
  BY <1>13 DEF Ensure, EnsureSteps, Probe, NoSpawn, WaitReady, Spawn, Goes,
       Callers, AdvertWithdrawn, ollamaVars, bonjourVars, capVars
<1>14. CASE Processes
  BY <1>14 DEF Processes, Serve, Exit, Reap, OtherServer, AdvertWithdrawn,
       ollamaVars, bonjourVars, capVars
<1>15. CASE Advertises
  BY <1>15 DEF Advertises, LanStart, LanStop, Watch, WatcherReturns,
       ToggleLan, reconcileBonjour, bonjourDeviceID, AdvertWithdrawn,
       ollamaVars, bonjourVars, capVars
<1>16. CASE UNCHANGED vars
  BY <1>16 DEF vars, AdvertWithdrawn, ollamaVars, bonjourVars, capVars
<1> QED
  BY <1>1, <1>2, <1>3, <1>4, <1>5, <1>6, <1>7, <1>8, <1>9, <1>10, <1>11,
       <1>12, <1>13, <1>14, <1>15, <1>16 DEF Next

-----------------------------------------------------------------------------
\* EnsureRunning's callers, the processes, the model and the advertisement keep
\* their types, for any set of processes.
THEOREM TypeCorrect == Spec => []TypeOK
<1>1. Init => TypeOK
  BY DEF Init, OllamaInit, BonjourInit, TypeOK, OllamaTypeOK, BonjourTypeOK,
       Ensuring
<1> QED
  BY <1>1, TypeStep, PTL DEF Spec

(***************************************************************************)
(* No spawned server is lost sight of: what was not told to stop is what   *)
(* cmd points to, and while the capability is down it is one that a failed *)
(* Start or a pull left (EnsureRunning, Stop, the goroutine that reaps).   *)
(***************************************************************************)
THEOREM ServersCorrect == Spec => []ServersAccounted
<1>1. Init => ServersAccounted
  BY DEF Init, OllamaInit, ServersAccounted, Alive
<1> QED
  BY <1>1, ServersStep, TypeCorrect, PTL DEF Spec

(***************************************************************************)
(* Stop clears the model, and only a refresh that was past its started     *)
(* check can bring one back (Stop, Healthy, StreamGenerateModel).          *)
(***************************************************************************)
THEOREM ModelCorrect == Spec => []NoModelWhenStopped
<1>1. Init => ModelInv
  BY DEF Init, BonjourInit, ModelInv
<1>2. ModelInv => NoModelWhenStopped
  BY DEF ModelInv, NoModelWhenStopped
<1> QED
  BY <1>1, <1>2, ModelStep, PTL DEF Spec

(***************************************************************************)
(* Nothing is advertised without a LAN server, whatever the watcher of one *)
(* that was stopped still does (reconcileBonjour, Stop).                   *)
(***************************************************************************)
THEOREM AdvertCorrect == Spec => []AdvertWithdrawn
<1>1. Init => AdvertWithdrawn
  BY DEF Init, BonjourInit, AdvertWithdrawn
<1> QED
  BY <1>1, AdvertStep, PTL DEF Spec
=============================================================================
