---------------------------- MODULE PairingProofs ----------------------------
(***************************************************************************)
(* Proofs about Pairing, for every set of connections, accounts, identity  *)
(* keys and restarts.                                                      *)
(***************************************************************************)
EXTENDS Pairing, TLAPS

\* A generation under a session key belongs to a session that has one.
KeyInv ==
    \A c \in Conns : "session" \in generating[c] => sess[c].keyed

\* A connection on which a pair_hello arrived is handshake-only.
GreetInv == \A c \in Conns : sess[c].greeted => sess[c].started

\* The file never knows a confirmation that memory does not, and only the
\* operator confirms.
PinInv ==
    /\ OneKeyPerAccount
    /\ \A a \in Accounts, p \in Apps :
         /\ devicesDisk[a][p] = "verified" => devices[a][p] = "verified"
         /\ devices[a][p] = "verified" => p \in confirmed[a]

\* A session that counts as verified was confirmed.
GateInv ==
    /\ ConfirmedInference
    /\ \A c \in Conns :
         requireVerify /\ sess[c].verified => sess[c].app \in confirmed[sess[c].own]

\* A waiting session is listed or its key is confirmed already; only
\* confirmed keys are cleared from the list.
ListInv ==
    /\ \A a \in Accounts : \A p \in clearing[a] : devices[a][p] = "verified"
    /\ \A c \in Conns :
         sess[c].at = "reading" /\ sess[c].keyed /\ ~sess[c].verified
             => \/ sess[c].app \in pending[sess[c].own]
                \/ devices[sess[c].own][sess[c].app] = "verified"

-----------------------------------------------------------------------------
\* Making room for a key keeps the map well typed.
LEMMA EvictedType ==
    ASSUME PinTypeOK, NEW a \in Accounts, NEW p \in Apps
    PROVE  Evicted(a, p) \in [Apps -> PinStates]
BY DEF PinTypeOK, PinStates, Evicted

\* Observe keeps the pin store well typed.
LEMMA ObserveType ==
    ASSUME PinTypeOK, NEW a \in Accounts, NEW p \in Apps, NEW b \in BOOLEAN,
           Observe(a, p, b)
    PROVE  PinTypeOK'
BY EvictedType DEF Observe, saveLocked, PinTypeOK

\* A closed connection has a session of the right shape.
LEMMA ClosedType == [NewSession EXCEPT !.at = "closed"] \in Session
BY DEF NewSession, Session, SessionFields, Phases

\* Every step keeps the types.
LEMMA TypeStep == TypeOK /\ [Next]_vars => TypeOK'
<1> SUFFICES ASSUME TypeOK, [Next]_vars PROVE TypeOK'
  OBVIOUS
<1>1. ASSUME NEW c \in Conns, ReadLoop(c) PROVE TypeOK'
  <2>1. CASE Connect(c)
    <3>1. sess[c] \in Session
      BY DEF TypeOK
    <3>2. NewSession \in Session
      BY <2>1, <3>1 DEF Connect, NewSession, TypeOK, Session, SessionFields,
           Phases
    <3>3. sess' \in [Conns -> Session]
      BY <2>1, <3>2 DEF Connect, NewSession, Only, TypeOK
    <3> QED
      BY <2>1, <3>3 DEF Connect, NewSession, Only, TypeOK, PinTypeOK,
           PerAccount, pinVars
  <2>2. CASE Disconnect(c)
    <3>1. sess[c] \in Session
      BY DEF TypeOK
    <3>2. [sess[c] EXCEPT !.at = "closed"] \in Session
      BY <2>2, <3>1 DEF Disconnect, TypeOK, Session, SessionFields, Phases
    <3>3. sess' \in [Conns -> Session]
      BY <2>2, <3>2 DEF Disconnect, Only, TypeOK
    <3> QED
      BY <2>2, <3>3 DEF Disconnect, Only, TypeOK, PinTypeOK, PerAccount,
           pinVars
  <2>3. CASE HelloBegin(c)
    <3>1. sess[c] \in Session
      BY DEF TypeOK
    <3>2. [sess[c] EXCEPT
             !.at = "verifying", !.started = TRUE, !.responder = "new",
             !.greeted = TRUE,
             !.own = IF sess[c].responder = "none" THEN account ELSE @] \in
                  Session
      BY <2>3, <3>1 DEF HelloBegin, TypeOK, Session, SessionFields, Phases
    <3>3. sess' \in [Conns -> Session]
      BY <2>3, <3>2 DEF HelloBegin, Only, TypeOK
    <3> QED
      BY <2>3, <3>3 DEF HelloBegin, Only, TypeOK, PinTypeOK, PerAccount,
           pinVars
  <2>4. CASE \E p \in Apps : HelloAccepted(c, p)
    <3>0. PICK p \in Apps : HelloAccepted(c, p)
      BY <2>4
    <3>1. sess[c] \in Session
      BY DEF TypeOK
    <3>2. [sess[c] EXCEPT !.at = "reading", !.responder = "hello", !.app = p]
         \in Session
      BY <3>0, <3>1 DEF HelloAccepted, TypeOK, Session, SessionFields, Phases
    <3>3. sess' \in [Conns -> Session]
      BY <3>0, <3>2 DEF HelloAccepted, Only, TypeOK
    <3> QED
      BY <3>0, <3>3 DEF HelloAccepted, Only, TypeOK, PinTypeOK, PerAccount,
           pinVars
  <2>5. CASE HelloRejected(c)
    <3>1. sess[c] \in Session
      BY DEF TypeOK
    <3>2. [sess[c] EXCEPT !.at = "reading"] \in Session
      BY <2>5, <3>1 DEF HelloRejected, TypeOK, Session, SessionFields, Phases
    <3>3. sess' \in [Conns -> Session]
      BY <2>5, <3>2 DEF HelloRejected, Only, TypeOK
    <3> QED
      BY <2>5, <3>3 DEF HelloRejected, Only, TypeOK, PinTypeOK, PerAccount,
           pinVars
  <2>6. CASE ConfirmRefused(c)
    <3> DEFINE a == sess[c].own
               p == sess[c].app
    <3>1. /\ sess[c] \in Session /\ sess[c].at = "reading"
          /\ a \in Accounts /\ p \in Apps
      BY <2>6 DEF ConfirmRefused, Confirming, TypeOK, Session
    <3>2. PinTypeOK'
      BY <2>6, <3>1, ObserveType DEF ConfirmRefused, TypeOK, PinTypeOK, pinVars
    <3>3. [sess[c] EXCEPT !.responder = "done",
                                !.changed = SafetyNumberChanged(a, p)] \in
                                     Session
      <4>1. SafetyNumberChanged(a, p) \in BOOLEAN
        BY Zenon DEF SafetyNumberChanged, IsVerified
      <4> QED
        BY <3>1, <4>1 DEF Session, SessionFields, Phases
    <3>4. sess' \in [Conns -> Session]
      BY <2>6, <3>3 DEF ConfirmRefused, Only, TypeOK
    <3> QED
      BY <2>6, <3>2, <3>4 DEF ConfirmRefused, Confirming, Only, TypeOK
  <2>7. CASE ConfirmPinned(c)
    <3> DEFINE a == sess[c].own
               p == sess[c].app
               v == IsVerified(a, p) \/ ~requireVerify
    <3>1. /\ sess[c] \in Session /\ sess[c].at = "reading"
          /\ a \in Accounts /\ p \in Apps
      BY <2>7 DEF ConfirmPinned, Confirming, TypeOK, Session
    <3>2. PinTypeOK'
      BY <2>7, <3>1, ObserveType DEF ConfirmPinned, TypeOK, PinTypeOK, pinVars
    <3>3. [sess[c] EXCEPT
             !.responder = "done", !.keyed = TRUE, !.verified = v,
             !.at = IF v THEN "reading" ELSE "recording"] \in Session
      <4>1. v \in BOOLEAN
        BY Zenon DEF SafetyNumberChanged, IsVerified
      <4> QED
        BY <3>1, <4>1, ZenonT(60) DEF Session, SessionFields, Phases
    <3>4. sess' \in [Conns -> Session]
      BY <2>7, <3>3 DEF ConfirmPinned, Only, TypeOK
    <3> QED
      BY <2>7, <3>2, <3>4 DEF ConfirmPinned, Confirming, Only, TypeOK
  <2>8. CASE recordPending(c)
    <3>1. /\ sess[c] \in Session
          /\ sess[c].own \in Accounts /\ sess[c].app \in Apps
      BY <2>8 DEF recordPending, TypeOK, Session
    <3>2. [sess[c] EXCEPT !.at = "reading"] \in Session
      BY <3>1 DEF Session, SessionFields, Phases
    <3>3. pending' \in PerAccount
      BY <2>8, <3>1 DEF recordPending, Add, TypeOK, PerAccount
    <3>4. sess' \in [Conns -> Session]
      BY <2>8, <3>2 DEF recordPending, Only, TypeOK
    <3> QED
      BY <2>8, <3>3, <3>4 DEF recordPending, Only, TypeOK, PinTypeOK, pinVars
  <2>9. CASE FileMessage(c)
    BY <2>9 DEF FileMessage, Generate, UsesFileKey, Only, TypeOK, PinTypeOK,
         PerAccount, vars, pairVars, pinVars
  <2>10. CASE SessionMessage(c)
    <3>1. sess[c] \in Session
      BY DEF TypeOK
    <3>2. [sess[c] EXCEPT !.verified = TRUE] \in Session
      BY <2>10, <3>1 DEF SessionMessage, Generate, TypeOK, Session,
           SessionFields, Phases
    <3>3. sess' \in [Conns -> Session]
      BY <2>10, <3>2 DEF SessionMessage, Generate, Only, TypeOK
    <3> QED
      BY <2>10, <3>3 DEF SessionMessage, Generate, Only, TypeOK, PinTypeOK,
           PerAccount, pinVars
  <2> QED
    BY <1>1, <2>1, <2>2, <2>3, <2>4, <2>5, <2>6, <2>7, <2>8, <2>9, <2>10 DEF
         ReadLoop
<1>2. ASSUME NEW c \in Conns, NEW key \in {"file", "session"},
     GenerationEnds(c, key) PROVE TypeOK'
  BY <1>2 DEF GenerationEnds, TypeOK, PinTypeOK, PerAccount, vars, pairVars,
       pinVars
<1>3. ASSUME NEW a \in Accounts, NEW p \in Apps, Verify(a, p) PROVE TypeOK'
  BY <1>3 DEF Verify, PinVerify, saveLocked, Add, PinStates, TypeOK,
       PinTypeOK, PerAccount, vars, pairVars, pinVars
<1>4. ASSUME NEW a \in Accounts, NEW p \in Apps, clearPending(a, p) PROVE
     TypeOK'
  BY <1>4 DEF clearPending, Remove, TypeOK, PinTypeOK, PerAccount, vars,
       pairVars, pinVars
<1>5. CASE SetPairingKey
  BY <1>5 DEF SetPairingKey, TypeOK, PinTypeOK, PerAccount, vars, pairVars,
       pinVars
<1>6. ASSUME NEW a \in Accounts, Registered(a) PROVE TypeOK'
  BY <1>6 DEF Registered, TypeOK, PinTypeOK, PerAccount, vars, pairVars,
       pinVars
<1>7. CASE Restart
  <2>1. sess' \in [Conns -> Session] /\ Nothing \in PerAccount
    BY <1>7, ClosedType DEF Restart, Nothing, PerAccount
  <2>2. boots' \in 0..MaxBoots /\ PinTypeOK'
    BY <1>7, PairingAssumption DEF Restart, LoadPinStore, TypeOK, PinTypeOK
  <2>3. /\ generating' \in [Conns -> SUBSET {"file", "session"}]
        /\ account' \in Accounts \cup {NoAccount}
    BY <1>7 DEF Restart
  <2> QED
    BY <1>7, <2>1, <2>2, <2>3, Zenon DEF Restart, TypeOK
<1>8. CASE UNCHANGED vars
  BY <1>8 DEF TypeOK, PinTypeOK, PerAccount, vars, pairVars, pinVars
<1> QED
  BY <1>1, <1>2, <1>3, <1>4, <1>5, <1>6, <1>7, <1>8 DEF Next

(***************************************************************************)
(* Every session, pin and list keeps its type; an accepted Hello always    *)
(* knows its account and identity key.                                     *)
(***************************************************************************)
THEOREM TypeCorrect == Spec => []TypeOK
<1>1. Init => TypeOK
  <2> SUFFICES ASSUME Init PROVE TypeOK
    OBVIOUS
  <2>1. sess \in [Conns -> Session] /\ Nothing \in PerAccount
    BY ClosedType DEF Init, Nothing, PerAccount
  <2>2. PinTypeOK /\ boots \in 0..MaxBoots
    BY PairingAssumption DEF Init, PinInit, PinTypeOK, PinStates
  <2>3. /\ generating \in [Conns -> SUBSET {"file", "session"}]
        /\ account \in Accounts \cup {NoAccount}
    BY DEF Init
  <2> QED
    BY <2>1, <2>2, <2>3, Zenon DEF Init, TypeOK
<1>2. TypeOK /\ [Next]_vars => TypeOK'
  BY TypeStep
<1> QED
  BY <1>1, <1>2, PTL DEF Spec

-----------------------------------------------------------------------------
(***************************************************************************)
(* The pin store.                                                          *)
(***************************************************************************)
LEMMA ObservePins ==
    ASSUME PinTypeOK, PinInv, UNCHANGED confirmed,
           NEW a \in Accounts, NEW p \in Apps, NEW b \in BOOLEAN,
           Observe(a, p, b)
    PROVE  PinInv'
<1>1. /\ devices' = [devices EXCEPT ![a] = Evicted(a, p)]
      /\ devicesDisk' = IF b THEN devices' ELSE devicesDisk
      /\ devices[a][p] = "none"
      /\ \A q \in Apps : devices[a][q] # "verified"
  BY DEF Observe, FirstContact, SafetyNumberChanged, saveLocked
<1>2. \A q \in Apps : devices'[a][q] = IF q = p THEN "unverified" ELSE "none"
  BY <1>1 DEF Evicted, PinTypeOK, PinStates
<1>3. \A e \in Accounts : e # a => devices'[e] = devices[e]
  BY <1>1 DEF PinTypeOK
<1>4. \A e \in Accounts, q, r \in Apps :
        devices'[e][q] # "none" /\ devices'[e][r] # "none" => q = r
  BY <1>2, <1>3 DEF PinInv, OneKeyPerAccount
<1>5. \A e \in Accounts, q \in Apps :
        devices'[e][q] = "verified" <=> devices[e][q] = "verified"
  BY <1>1, <1>2, <1>3
<1> QED
  BY <1>1, <1>4, <1>5 DEF PinInv, OneKeyPerAccount

\* Observe neither confirms a key nor takes a confirmation away.
LEMMA ObserveVerified ==
    ASSUME PinTypeOK, NEW a \in Accounts, NEW p \in Apps, NEW b \in BOOLEAN,
           Observe(a, p, b)
    PROVE  /\ \A e \in Accounts, q \in Apps :
                devices'[e][q] = "verified" <=> devices[e][q] = "verified"
           /\ devicesDisk' = devices' \/ devicesDisk' = devicesDisk
<1>1. /\ devices' = [devices EXCEPT ![a] = Evicted(a, p)]
      /\ devices[a][p] = "none"
      /\ \A q \in Apps : devices[a][q] # "verified"
  BY DEF Observe, FirstContact, SafetyNumberChanged
<1>2. \A q \in Apps : devices'[a][q] # "verified"
  BY <1>1 DEF Evicted, PinTypeOK, PinStates
<1>3. \A e \in Accounts : e # a => devices'[e] = devices[e]
  BY <1>1 DEF PinTypeOK
<1> QED
  BY <1>1, <1>2, <1>3 DEF Observe, saveLocked

\* The operator confirming a recorded key keeps the pin store consistent.
LEMMA VerifyPins ==
    ASSUME TypeOK, PinInv,
           NEW a \in Accounts, NEW p \in Apps, NEW b \in BOOLEAN,
           PinVerify(a, p, b), confirmed' = Add(confirmed, a, p)
    PROVE  PinInv'
<1>1. /\ devices' = [devices EXCEPT ![a][p] = "verified"]
      /\ devicesDisk' = IF b THEN devices' ELSE devicesDisk
      /\ devices[a][p] # "none"
  BY DEF PinVerify, saveLocked
<1>2. \A e \in Accounts, q \in Apps :
        devices'[e][q] = IF e = a /\ q = p THEN "verified" ELSE devices[e][q]
  BY <1>1 DEF TypeOK, PinTypeOK
<1>3. \A e \in Accounts, q \in Apps :
        q \in confirmed'[e] <=> q \in confirmed[e] \/ (e = a /\ q = p)
  BY DEF Add, TypeOK, PerAccount
<1>4. \A e \in Accounts, q, r \in Apps :
        devices'[e][q] # "none" /\ devices'[e][r] # "none" => q = r
  BY <1>1, <1>2 DEF PinInv, OneKeyPerAccount
<1> QED
  BY <1>1, <1>2, <1>3, <1>4 DEF PinInv, OneKeyPerAccount

\* Every step keeps the pin store consistent with what was confirmed.
LEMMA PinStep == TypeOK /\ PinInv /\ [Next]_vars => PinInv'
<1> SUFFICES ASSUME TypeOK, PinInv, [Next]_vars PROVE PinInv'
  OBVIOUS
<1>1. ASSUME NEW c \in Conns, ReadLoop(c) PROVE PinInv'
  <2>1. CASE Connect(c)
    BY <2>1 DEF Connect, NewSession, Only, PinInv, OneKeyPerAccount, vars,
         pairVars, pinVars
  <2>2. CASE Disconnect(c)
    BY <2>2 DEF Disconnect, Only, PinInv, OneKeyPerAccount, vars, pairVars,
         pinVars
  <2>3. CASE HelloBegin(c)
    BY <2>3 DEF HelloBegin, Only, PinInv, OneKeyPerAccount, vars, pairVars,
         pinVars
  <2>4. CASE \E p \in Apps : HelloAccepted(c, p)
    <3>1. PICK p \in Apps : HelloAccepted(c, p)
      BY <2>4
    <3> QED
      BY <3>1 DEF HelloAccepted, Only, PinInv, OneKeyPerAccount, pinVars
  <2>5. CASE HelloRejected(c)
    BY <2>5 DEF HelloRejected, Only, PinInv, OneKeyPerAccount, vars, pairVars,
         pinVars
  <2>6. CASE ConfirmRefused(c)
    <3>1. sess[c].own \in Accounts /\ sess[c].app \in Apps /\ PinTypeOK
      BY <2>6 DEF ConfirmRefused, Confirming, TypeOK, Session
    <3>2. CASE UNCHANGED pinVars
      BY <2>6, <3>2 DEF ConfirmRefused, Only, PinInv, OneKeyPerAccount, pinVars
    <3>3. CASE Observe(sess[c].own, sess[c].app, FALSE)
      BY <2>6, <3>1, <3>3, ObservePins DEF ConfirmRefused, Only
    <3> QED
      BY <2>6, <3>2, <3>3 DEF ConfirmRefused
  <2>7. CASE ConfirmPinned(c)
    <3>1. sess[c].own \in Accounts /\ sess[c].app \in Apps /\ PinTypeOK
      BY <2>7 DEF ConfirmPinned, Confirming, TypeOK, Session
    <3>2. CASE UNCHANGED pinVars
      BY <2>7, <3>2 DEF ConfirmPinned, Only, PinInv, OneKeyPerAccount, pinVars
    <3>3. CASE Observe(sess[c].own, sess[c].app, TRUE)
      BY <2>7, <3>1, <3>3, ObservePins DEF ConfirmPinned, Only
    <3> QED
      BY <2>7, <3>2, <3>3 DEF ConfirmPinned
  <2>8. CASE recordPending(c)
    BY <2>8 DEF recordPending, Add, Only, PinInv, OneKeyPerAccount, vars,
         pairVars, pinVars
  <2>9. CASE FileMessage(c)
    BY <2>9 DEF FileMessage, Generate, UsesFileKey, Only, PinInv,
         OneKeyPerAccount, vars, pairVars, pinVars
  <2>10. CASE SessionMessage(c)
    BY <2>10 DEF SessionMessage, Generate, sessionInferenceAllowed,
         IsVerified, Only, PinInv, OneKeyPerAccount, vars, pairVars, pinVars
  <2> QED
    BY <1>1, <2>1, <2>2, <2>3, <2>4, <2>5, <2>6, <2>7, <2>8, <2>9, <2>10 DEF
         ReadLoop
<1>2. ASSUME NEW c \in Conns, NEW key \in {"file", "session"},
     GenerationEnds(c, key) PROVE PinInv'
  BY <1>2 DEF GenerationEnds, PinInv, OneKeyPerAccount, vars, pairVars, pinVars
<1>3. ASSUME NEW a \in Accounts, NEW p \in Apps, Verify(a, p) PROVE PinInv'
  <2>1. PICK b \in BOOLEAN : PinVerify(a, p, b)
    BY <1>3 DEF Verify
  <2>2. confirmed' = Add(confirmed, a, p)
    BY <1>3 DEF Verify
  <2> QED
    BY <2>1, <2>2, VerifyPins
<1>4. ASSUME NEW a \in Accounts, NEW p \in Apps, clearPending(a, p) PROVE
     PinInv'
  BY <1>4 DEF clearPending, Remove, PinInv, OneKeyPerAccount, vars, pairVars,
       pinVars
<1>5. CASE SetPairingKey
  BY <1>5 DEF SetPairingKey, PinInv, OneKeyPerAccount, vars, pairVars, pinVars
<1>6. ASSUME NEW a \in Accounts, Registered(a) PROVE PinInv'
  BY <1>6 DEF Registered, PinInv, OneKeyPerAccount, vars, pairVars, pinVars
<1>7. CASE Restart
  BY <1>7 DEF Restart, LoadPinStore, NewSession, Nothing, PinInv,
       OneKeyPerAccount, vars, pairVars, pinVars
<1>8. CASE UNCHANGED vars
  BY <1>8 DEF PinInv, OneKeyPerAccount, vars, pairVars, pinVars
<1> QED
  BY <1>1, <1>2, <1>3, <1>4, <1>5, <1>6, <1>7, <1>8 DEF Next

(***************************************************************************)
(* One identity per account in memory and in the file, through every       *)
(* handshake, confirmation, failed save and restart.                       *)
(***************************************************************************)
THEOREM OneKeyCorrect == Spec => []OneKeyPerAccount
<1>1. Init => PinInv
  BY DEF Init, PinInit, PinInv, OneKeyPerAccount
<1>2. TypeOK /\ PinInv /\ [Next]_vars => PinInv'
  BY PinStep
<1>3. PinInv => OneKeyPerAccount
  BY DEF PinInv
<1> QED
  BY <1>1, <1>2, <1>3, TypeCorrect, PTL DEF Spec

-----------------------------------------------------------------------------
(***************************************************************************)
(* The inference gate.                                                     *)
(***************************************************************************)
LEMMA KeyStep == TypeOK /\ KeyInv /\ [Next]_vars => KeyInv'
<1> SUFFICES ASSUME TypeOK, KeyInv, [Next]_vars PROVE KeyInv'
  OBVIOUS
<1>1. ASSUME NEW c \in Conns, ReadLoop(c) PROVE KeyInv'
  <2>1. CASE Connect(c)
    BY <2>1 DEF Connect, NewSession, Only, NewSession, KeyInv, TypeOK, vars,
         pairVars, pinVars
  <2>2. CASE Disconnect(c)
    BY <2>2 DEF Disconnect, Only, KeyInv, TypeOK, vars, pairVars, pinVars
  <2>3. CASE HelloBegin(c)
    BY <2>3 DEF HelloBegin, Only, KeyInv, TypeOK, vars, pairVars, pinVars
  <2>4. CASE \E p \in Apps : HelloAccepted(c, p)
    BY <2>4 DEF HelloAccepted, Only, KeyInv, TypeOK, vars, pairVars, pinVars
  <2>5. CASE HelloRejected(c)
    BY <2>5, SMTT(40) DEF HelloRejected, Only, KeyInv, TypeOK, vars,
         pairVars, pinVars
  <2>6. CASE ConfirmRefused(c)
    BY <2>6 DEF ConfirmRefused, Confirming, Observe, saveLocked,
         SafetyNumberChanged, FirstContact, Only, KeyInv, TypeOK, vars,
         pairVars, pinVars
  <2>7. CASE ConfirmPinned(c)
    BY <2>7 DEF ConfirmPinned, Confirming, Observe, saveLocked,
         SafetyNumberChanged, FirstContact, IsVerified, Only, KeyInv, TypeOK,
         vars, pairVars, pinVars
  <2>8. CASE recordPending(c)
    BY <2>8 DEF recordPending, Add, Only, KeyInv, TypeOK, vars, pairVars,
         pinVars
  <2>9. CASE FileMessage(c)
    BY <2>9 DEF FileMessage, Generate, UsesFileKey, Only, KeyInv, TypeOK,
         vars, pairVars, pinVars
  <2>10. CASE SessionMessage(c)
    BY <2>10 DEF SessionMessage, Generate, sessionInferenceAllowed,
         IsVerified, Only, KeyInv, TypeOK, vars, pairVars, pinVars
  <2> QED
    BY <1>1, <2>1, <2>2, <2>3, <2>4, <2>5, <2>6, <2>7, <2>8, <2>9, <2>10 DEF
         ReadLoop
<1>2. ASSUME NEW c \in Conns, NEW key \in {"file", "session"},
     GenerationEnds(c, key) PROVE KeyInv'
  BY <1>2 DEF GenerationEnds, KeyInv, TypeOK, vars, pairVars, pinVars
<1>3. ASSUME NEW a \in Accounts, NEW p \in Apps, Verify(a, p) PROVE KeyInv'
  BY <1>3 DEF Verify, PinVerify, saveLocked, Add, KeyInv, TypeOK, vars,
       pairVars, pinVars
<1>4. ASSUME NEW a \in Accounts, NEW p \in Apps, clearPending(a, p) PROVE
     KeyInv'
  BY <1>4 DEF clearPending, Remove, KeyInv, TypeOK, vars, pairVars, pinVars
<1>5. CASE SetPairingKey
  BY <1>5 DEF SetPairingKey, KeyInv, TypeOK, vars, pairVars, pinVars
<1>6. ASSUME NEW a \in Accounts, Registered(a) PROVE KeyInv'
  BY <1>6 DEF Registered, KeyInv, TypeOK, vars, pairVars, pinVars
<1>7. CASE Restart
  BY <1>7 DEF Restart, LoadPinStore, NewSession, Nothing, KeyInv, TypeOK,
       vars, pairVars, pinVars
<1>8. CASE UNCHANGED vars
  BY <1>8 DEF KeyInv, TypeOK, vars, pairVars, pinVars
<1> QED
  BY <1>1, <1>2, <1>3, <1>4, <1>5, <1>6, <1>7, <1>8 DEF Next

\* Every step keeps unconfirmed sessions out of inference.
LEMMA GateStep ==
    TypeOK /\ PinInv /\ KeyInv /\ GateInv /\ [Next]_vars => GateInv'
<1> SUFFICES ASSUME TypeOK, PinInv, KeyInv, GateInv, [Next]_vars PROVE GateInv'
  OBVIOUS
<1>1. ASSUME NEW c \in Conns, ReadLoop(c) PROVE GateInv'
  <2>1. CASE Connect(c)
    BY <2>1 DEF Connect, NewSession, Only, GateInv, ConfirmedInference,
         KeyInv, PinInv, TypeOK, PerAccount, Session, vars, pairVars, pinVars
  <2>2. CASE Disconnect(c)
    BY <2>2 DEF Disconnect, Only, GateInv, ConfirmedInference, KeyInv, PinInv,
         TypeOK, PerAccount, Session, vars, pairVars, pinVars
  <2>3. CASE HelloBegin(c)
    BY <2>3 DEF HelloBegin, Only, GateInv, ConfirmedInference, KeyInv, PinInv,
         TypeOK, PerAccount, Session, vars, pairVars, pinVars
  <2>4. CASE \E p \in Apps : HelloAccepted(c, p)
    BY <2>4 DEF HelloAccepted, Only, GateInv, ConfirmedInference, KeyInv,
         PinInv, TypeOK, PerAccount, Session, vars, pairVars, pinVars
  <2>5. CASE HelloRejected(c)
    BY <2>5, SMTT(40) DEF HelloRejected, Only, GateInv, ConfirmedInference,
         KeyInv,
         PinInv, TypeOK, PerAccount, Session, vars, pairVars, pinVars
  <2>6. CASE ConfirmRefused(c)
    BY <2>6 DEF ConfirmRefused, Confirming, Observe, saveLocked,
         SafetyNumberChanged, FirstContact, Only, GateInv, ConfirmedInference,
         KeyInv, PinInv, TypeOK, PerAccount, Session, vars, pairVars, pinVars
  <2>7. CASE ConfirmPinned(c)
    <3> DEFINE a == sess[c].own
               p == sess[c].app
    <3>1. /\ sess[c] \in Session /\ a \in Accounts /\ p \in Apps
          /\ ~sess[c].keyed
      BY <2>7 DEF ConfirmPinned, Confirming, TypeOK, Session
    <3>2. "session" \notin generating'[c]
      BY <2>7, <3>1 DEF ConfirmPinned, Confirming, KeyInv
    <3>3. /\ requireVerify' = requireVerify /\ confirmed' = confirmed
          /\ generating' = generating
          /\ \A d \in Conns : d # c => sess'[d] = sess[d]
      BY <2>7 DEF ConfirmPinned, Confirming, Only, TypeOK
    <3>4. sess'[c].own = a /\ sess'[c].app = p
      BY <2>7, <3>1 DEF ConfirmPinned, Only, TypeOK, Session, SessionFields
    <3>5. sess'[c].verified => IsVerified(a, p) \/ ~requireVerify
      BY <2>7, <3>1 DEF ConfirmPinned, Only, TypeOK, Session, SessionFields
    <3>6. requireVerify /\ sess'[c].verified => p \in confirmed[a]
      BY <3>1, <3>5 DEF IsVerified, PinInv
    <3> QED
      BY <3>2, <3>3, <3>4, <3>6 DEF GateInv, ConfirmedInference
  <2>8. CASE recordPending(c)
    BY <2>8 DEF recordPending, Add, Only, GateInv, ConfirmedInference, KeyInv,
         PinInv, TypeOK, PerAccount, Session, vars, pairVars, pinVars
  <2>9. CASE FileMessage(c)
    BY <2>9 DEF FileMessage, Generate, UsesFileKey, Only, GateInv,
         ConfirmedInference, KeyInv, PinInv, TypeOK, PerAccount, Session,
         vars, pairVars, pinVars
  <2>10. CASE SessionMessage(c)
    BY <2>10 DEF SessionMessage, Generate, sessionInferenceAllowed,
         IsVerified, Only, GateInv, ConfirmedInference, KeyInv, PinInv,
         TypeOK, PerAccount, Session, vars, pairVars, pinVars
  <2> QED
    BY <1>1, <2>1, <2>2, <2>3, <2>4, <2>5, <2>6, <2>7, <2>8, <2>9, <2>10 DEF
         ReadLoop
<1>2. ASSUME NEW c \in Conns, NEW key \in {"file", "session"},
     GenerationEnds(c, key) PROVE GateInv'
  BY <1>2 DEF GenerationEnds, GateInv, ConfirmedInference, KeyInv, PinInv,
       TypeOK, PerAccount, Session, vars, pairVars, pinVars
<1>3. ASSUME NEW a \in Accounts, NEW p \in Apps, Verify(a, p) PROVE GateInv'
  BY <1>3 DEF Verify, PinVerify, saveLocked, Add, GateInv, ConfirmedInference,
       KeyInv, PinInv, TypeOK, PerAccount, Session, vars, pairVars, pinVars
<1>4. ASSUME NEW a \in Accounts, NEW p \in Apps, clearPending(a, p) PROVE
     GateInv'
  BY <1>4 DEF clearPending, Remove, GateInv, ConfirmedInference, KeyInv,
       PinInv, TypeOK, PerAccount, Session, vars, pairVars, pinVars
<1>5. CASE SetPairingKey
  BY <1>5 DEF SetPairingKey, GateInv, ConfirmedInference, KeyInv, PinInv,
       TypeOK, PerAccount, Session, vars, pairVars, pinVars
<1>6. ASSUME NEW a \in Accounts, Registered(a) PROVE GateInv'
  BY <1>6 DEF Registered, GateInv, ConfirmedInference, KeyInv, PinInv, TypeOK,
       PerAccount, Session, vars, pairVars, pinVars
<1>7. CASE Restart
  BY <1>7 DEF Restart, LoadPinStore, NewSession, Nothing, GateInv,
       ConfirmedInference, KeyInv, PinInv, TypeOK, PerAccount, Session, vars,
       pairVars, pinVars
<1>8. CASE UNCHANGED vars
  BY <1>8 DEF GateInv, ConfirmedInference, KeyInv, PinInv, TypeOK, PerAccount,
       Session, vars, pairVars, pinVars
<1> QED
  BY <1>1, <1>2, <1>3, <1>4, <1>5, <1>6, <1>7, <1>8 DEF Next

(***************************************************************************)
(* When verification is required, inference runs only for identity keys    *)
(* the operator confirmed.                                                 *)
(***************************************************************************)
THEOREM GateCorrect == Spec => []ConfirmedInference
<1>1. Init => PinInv /\ KeyInv /\ GateInv
  BY DEF Init, PinInit, NewSession, PinInv, OneKeyPerAccount, KeyInv, GateInv,
         ConfirmedInference
<1>2. TypeOK /\ PinInv /\ KeyInv /\ GateInv /\ [Next]_vars
        => PinInv' /\ KeyInv' /\ GateInv'
  BY PinStep, KeyStep, GateStep
<1>3. GateInv => ConfirmedInference
  BY DEF GateInv
<1> QED
  BY <1>1, <1>2, <1>3, TypeCorrect, PTL DEF Spec

(***************************************************************************)
(* A confirmation that reached the file is never taken back.               *)
(***************************************************************************)
LEMMA KeptStep ==
    ASSUME TypeOK, PinInv, [Next]_vars,
           NEW e \in Accounts, NEW q \in Apps, devicesDisk[e][q] = "verified"
    PROVE  devicesDisk'[e][q] = "verified" /\ devices'[e][q] = "verified"
<1> DEFINE Kept == devicesDisk'[e][q] = "verified" /\ devices'[e][q] = "verified"
<1>0. devices[e][q] = "verified"
  BY DEF PinInv
<1> SUFFICES Kept
  OBVIOUS
<1>1. ASSUME NEW c \in Conns, ReadLoop(c) PROVE Kept
  <2>1. CASE Connect(c)
    BY <2>1, <1>0 DEF Connect, NewSession, Only, PinTypeOK, vars, pairVars,
         pinVars
  <2>2. CASE Disconnect(c)
    BY <2>2, <1>0 DEF Disconnect, Only, PinTypeOK, vars, pairVars, pinVars
  <2>3. CASE HelloBegin(c)
    BY <2>3, <1>0 DEF HelloBegin, Only, PinTypeOK, vars, pairVars, pinVars
  <2>4. CASE \E p \in Apps : HelloAccepted(c, p)
    BY <2>4, <1>0 DEF HelloAccepted, Only, PinTypeOK, vars, pairVars, pinVars
  <2>5. CASE HelloRejected(c)
    BY <2>5, <1>0 DEF HelloRejected, Only, PinTypeOK, vars, pairVars, pinVars
  <2>6. CASE ConfirmRefused(c)
    <3>1. sess[c].own \in Accounts /\ sess[c].app \in Apps /\ PinTypeOK
      BY <2>6 DEF ConfirmRefused, Confirming, TypeOK, Session
    <3>2. CASE UNCHANGED pinVars
      BY <1>0, <3>2 DEF pinVars
    <3>3. CASE Observe(sess[c].own, sess[c].app, FALSE)
      BY <1>0, <3>1, <3>3, ObserveVerified
    <3> QED
      BY <2>6, <3>2, <3>3 DEF ConfirmRefused
  <2>7. CASE ConfirmPinned(c)
    <3>1. sess[c].own \in Accounts /\ sess[c].app \in Apps /\ PinTypeOK
      BY <2>7 DEF ConfirmPinned, Confirming, TypeOK, Session
    <3>2. CASE UNCHANGED pinVars
      BY <1>0, <3>2 DEF pinVars
    <3>3. CASE Observe(sess[c].own, sess[c].app, TRUE)
      BY <1>0, <3>1, <3>3, ObserveVerified
    <3> QED
      BY <2>7, <3>2, <3>3 DEF ConfirmPinned
  <2>8. CASE recordPending(c)
    BY <2>8, <1>0 DEF recordPending, Add, Only, PinTypeOK, vars, pairVars,
         pinVars
  <2>9. CASE FileMessage(c)
    BY <2>9, <1>0 DEF FileMessage, Generate, UsesFileKey, Only, PinTypeOK,
         vars, pairVars, pinVars
  <2>10. CASE SessionMessage(c)
    BY <2>10, <1>0 DEF SessionMessage, Generate, sessionInferenceAllowed,
         IsVerified, Only, PinTypeOK, vars, pairVars, pinVars
  <2> QED
    BY <1>1, <2>1, <2>2, <2>3, <2>4, <2>5, <2>6, <2>7, <2>8, <2>9, <2>10 DEF
         ReadLoop
<1>2. ASSUME NEW c \in Conns, NEW key \in {"file", "session"},
     GenerationEnds(c, key) PROVE Kept
  BY <1>2, <1>0 DEF GenerationEnds, PinTypeOK, vars, pairVars, pinVars
<1>3. ASSUME NEW a \in Accounts, NEW p \in Apps, Verify(a, p) PROVE Kept
  BY <1>3, <1>0 DEF Verify, PinVerify, saveLocked, TypeOK, PinTypeOK
<1>4. ASSUME NEW a \in Accounts, NEW p \in Apps, clearPending(a, p) PROVE Kept
  BY <1>4, <1>0 DEF clearPending, Remove, PinTypeOK, vars, pairVars, pinVars
<1>5. CASE SetPairingKey
  BY <1>5, <1>0 DEF SetPairingKey, PinTypeOK, vars, pairVars, pinVars
<1>6. ASSUME NEW a \in Accounts, Registered(a) PROVE Kept
  BY <1>6, <1>0 DEF Registered, PinTypeOK, vars, pairVars, pinVars
<1>7. CASE Restart
  BY <1>7, <1>0 DEF Restart, LoadPinStore, NewSession, Nothing, PinTypeOK,
       vars, pairVars, pinVars
<1>8. CASE UNCHANGED vars
  BY <1>0, <1>8 DEF PinTypeOK, vars, pairVars, pinVars
<1> QED
  BY <1>1, <1>2, <1>3, <1>4, <1>5, <1>6, <1>7, <1>8 DEF Next

\* A confirmation that reached the file is never taken back (ConfirmationKept).
THEOREM KeptCorrect == Spec => ConfirmationKept
<1>1. TypeOK /\ PinInv /\ [Next]_vars =>
        [\A a \in Accounts, p \in Apps :
           devicesDisk[a][p] = "verified"
             => devicesDisk'[a][p] = "verified" /\ devices'[a][p] = "verified"]_vars
  BY KeptStep
<1>2. Init => PinInv
  BY DEF Init, PinInit, PinInv, OneKeyPerAccount
<1>3. TypeOK /\ PinInv /\ [Next]_vars => PinInv'
  BY PinStep
<1> QED
  BY <1>1, <1>2, <1>3, TypeCorrect, PTL DEF Spec, ConfirmationKept

-----------------------------------------------------------------------------
(***************************************************************************)
(* The list the operator confirms from.                                    *)
(***************************************************************************)
LEMMA ListStep ==
    TypeOK /\ PinInv /\ ListInv /\ [Next]_vars => ListInv'
<1> SUFFICES ASSUME TypeOK, PinInv, ListInv, [Next]_vars PROVE ListInv'
  OBVIOUS
<1>1. ASSUME NEW c \in Conns, ReadLoop(c) PROVE ListInv'
  <2>1. CASE Connect(c)
    BY <2>1 DEF Connect, NewSession, Only, ListInv, TypeOK, PinTypeOK,
         PinStates, PerAccount, Session, vars, pairVars, pinVars
  <2>2. CASE Disconnect(c)
    BY <2>2 DEF Disconnect, Only, ListInv, TypeOK, PinTypeOK, PinStates,
         PerAccount, Session, vars, pairVars, pinVars
  <2>3. CASE HelloBegin(c)
    BY <2>3 DEF HelloBegin, Only, ListInv, TypeOK, PinTypeOK, PinStates,
         PerAccount, Session, vars, pairVars, pinVars
  <2>4. CASE \E p \in Apps : HelloAccepted(c, p)
    BY <2>4, SMTT(40) DEF HelloAccepted, Only, ListInv, TypeOK, PinTypeOK,
         PinStates,
         PerAccount, Session, vars, pairVars, pinVars
  <2>5. CASE HelloRejected(c)
    BY <2>5 DEF HelloRejected, Only, ListInv, TypeOK, PinTypeOK, PinStates,
         PerAccount, Session, vars, pairVars, pinVars
  <2>6. CASE ConfirmRefused(c)
    <3> DEFINE a == sess[c].own
               p == sess[c].app
    <3>1. /\ sess[c] \in Session /\ a \in Accounts /\ p \in Apps
          /\ ~sess[c].keyed /\ PinTypeOK
      BY <2>6 DEF ConfirmRefused, Confirming, TypeOK, Session
    <3>2. \A e \in Accounts, q \in Apps :
            devices'[e][q] = "verified" <=> devices[e][q] = "verified"
      <4>1. CASE UNCHANGED pinVars
        BY <4>1 DEF pinVars
      <4>2. CASE Observe(a, p, FALSE)
        BY <3>1, <4>2, ObserveVerified
      <4> QED
        BY <2>6, <4>1, <4>2 DEF ConfirmRefused
    <3>3. /\ clearing' = clearing /\ pending' = pending
          /\ \A d \in Conns : d # c => sess'[d] = sess[d]
      BY <2>6 DEF ConfirmRefused, Confirming, Only, TypeOK
    <3>4. ~sess'[c].keyed
      BY <2>6, <3>1 DEF ConfirmRefused, Only, TypeOK, Session, SessionFields
    <3>5. \A d \in Conns : sess[d].keyed
            => sess[d].own \in Accounts /\ sess[d].app \in Apps
      BY DEF TypeOK, Session
    <3> QED
      BY <3>2, <3>3, <3>4, <3>5 DEF ListInv, TypeOK, PerAccount
  <2>7. CASE ConfirmPinned(c)
    <3> DEFINE a == sess[c].own
               p == sess[c].app
    <3>1. /\ sess[c] \in Session /\ a \in Accounts /\ p \in Apps
          /\ ~sess[c].keyed /\ PinTypeOK
      BY <2>7 DEF ConfirmPinned, Confirming, TypeOK, Session
    <3>2. \A e \in Accounts, q \in Apps :
            devices'[e][q] = "verified" <=> devices[e][q] = "verified"
      <4>1. CASE UNCHANGED pinVars
        BY <4>1 DEF pinVars
      <4>2. CASE Observe(a, p, TRUE)
        BY <3>1, <4>2, ObserveVerified
      <4> QED
        BY <2>7, <4>1, <4>2 DEF ConfirmPinned
    <3>3. /\ clearing' = clearing /\ pending' = pending
          /\ \A d \in Conns : d # c => sess'[d] = sess[d]
      BY <2>7 DEF ConfirmPinned, Confirming, Only, TypeOK
    <3>4. sess'[c].verified \/ sess'[c].at = "recording"
      BY <2>7, <3>1 DEF ConfirmPinned, Only, TypeOK, Session, SessionFields
    <3>5. \A d \in Conns : sess[d].keyed
            => sess[d].own \in Accounts /\ sess[d].app \in Apps
      BY DEF TypeOK, Session
    <3> QED
      BY <3>2, <3>3, <3>4, <3>5 DEF ListInv, TypeOK, PerAccount
  <2>8. CASE recordPending(c)
    BY <2>8 DEF recordPending, Add, Only, ListInv, TypeOK, PinTypeOK,
         PinStates, PerAccount, Session, vars, pairVars, pinVars
  <2>9. CASE FileMessage(c)
    BY <2>9 DEF FileMessage, Generate, UsesFileKey, Only, ListInv, TypeOK,
         PinTypeOK, PinStates, PerAccount, Session, vars, pairVars, pinVars
  <2>10. CASE SessionMessage(c)
    BY <2>10 DEF SessionMessage, Generate, sessionInferenceAllowed,
         IsVerified, Only, ListInv, TypeOK, PinTypeOK, PinStates, PerAccount,
         Session, vars, pairVars, pinVars
  <2> QED
    BY <1>1, <2>1, <2>2, <2>3, <2>4, <2>5, <2>6, <2>7, <2>8, <2>9, <2>10 DEF
         ReadLoop
<1>2. ASSUME NEW c \in Conns, NEW key \in {"file", "session"},
     GenerationEnds(c, key) PROVE ListInv'
  BY <1>2 DEF GenerationEnds, ListInv, TypeOK, PinTypeOK, PinStates,
       PerAccount, Session, vars, pairVars, pinVars
<1>3. ASSUME NEW a \in Accounts, NEW p \in Apps, Verify(a, p) PROVE ListInv'
  BY <1>3 DEF Verify, PinVerify, saveLocked, Add, ListInv, TypeOK, PinTypeOK,
       PinStates, PerAccount, Session, vars, pairVars, pinVars
<1>4. ASSUME NEW a \in Accounts, NEW p \in Apps, clearPending(a, p) PROVE
     ListInv'
  BY <1>4 DEF clearPending, Remove, ListInv, TypeOK, PinTypeOK, PinStates,
       PerAccount, Session, vars, pairVars, pinVars
<1>5. CASE SetPairingKey
  BY <1>5 DEF SetPairingKey, ListInv, TypeOK, PinTypeOK, PinStates,
       PerAccount, Session, vars, pairVars, pinVars
<1>6. ASSUME NEW a \in Accounts, Registered(a) PROVE ListInv'
  BY <1>6 DEF Registered, ListInv, TypeOK, PinTypeOK, PinStates, PerAccount,
       Session, vars, pairVars, pinVars
<1>7. CASE Restart
  BY <1>7 DEF Restart, LoadPinStore, NewSession, Nothing, ListInv, TypeOK,
       PinTypeOK, PinStates, PerAccount, Session, vars, pairVars, pinVars
<1>8. CASE UNCHANGED vars
  BY <1>8 DEF ListInv, TypeOK, PinTypeOK, PinStates, PerAccount, Session,
       vars, pairVars, pinVars
<1> QED
  BY <1>1, <1>2, <1>3, <1>4, <1>5, <1>6, <1>7, <1>8 DEF Next

(***************************************************************************)
(* A waiting app whose key the store holds unverified is in the list.      *)
(***************************************************************************)
THEOREM ListCorrect == Spec => []AwaitingListed
<1>1. Init => PinInv /\ ListInv
  BY DEF Init, PinInit, NewSession, PinInv, OneKeyPerAccount, ListInv, Nothing
<1>2. TypeOK /\ PinInv /\ ListInv /\ [Next]_vars => PinInv' /\ ListInv'
  BY PinStep, ListStep
<1>3. ListInv => AwaitingListed
  BY DEF ListInv, AwaitingListed
<1> QED
  BY <1>1, <1>2, <1>3, TypeCorrect, PTL DEF Spec

-----------------------------------------------------------------------------
(***************************************************************************)
(* A pair_hello latches its connection.                                    *)
(***************************************************************************)
LEMMA GreetStep == TypeOK /\ GreetInv /\ [Next]_vars => GreetInv'
<1> SUFFICES ASSUME TypeOK, GreetInv, [Next]_vars PROVE GreetInv'
  OBVIOUS
<1>0. \A c \in Conns : sess[c] \in SessionFields
  BY DEF TypeOK, Session
<1>1. ASSUME NEW c \in Conns, ReadLoop(c) PROVE GreetInv'
  <2>1. /\ \A d \in Conns : d # c => sess'[d] = sess[d]
        /\ sess'[c].greeted => sess'[c].started
    <3>1. CASE Connect(c)
      BY <3>1 DEF Connect, Only, NewSession, TypeOK
    <3>2. CASE HelloBegin(c)
      BY <1>0, <3>2 DEF HelloBegin, Only, GreetInv, TypeOK, SessionFields
    <3>3. CASE Disconnect(c) \/ HelloRejected(c) \/ recordPending(c)
      BY <1>0, <3>3 DEF Disconnect, HelloRejected, recordPending, Only, GreetInv,
         TypeOK, SessionFields
    <3>4. CASE \E p \in Apps : HelloAccepted(c, p)
      BY <1>0, <3>4 DEF HelloAccepted, Only, GreetInv, TypeOK, SessionFields
    <3>5. CASE ConfirmRefused(c)
      BY <1>0, <3>5 DEF ConfirmRefused, Only, GreetInv, TypeOK, SessionFields
    <3>6. CASE ConfirmPinned(c)
      BY <1>0, <3>6 DEF ConfirmPinned, Only, GreetInv, TypeOK, SessionFields
    <3>7. CASE FileMessage(c) \/ SessionMessage(c)
      BY <1>0, <3>7 DEF FileMessage, SessionMessage, Only, GreetInv, TypeOK, SessionFields
    <3> QED
      BY <1>1, <3>1, <3>2, <3>3, <3>4, <3>5, <3>6, <3>7 DEF ReadLoop
  <2> QED
    BY <2>1 DEF GreetInv
<1>2. CASE UNCHANGED sess
  BY <1>2 DEF GreetInv
<1>3. CASE Restart
  BY <1>3 DEF Restart, NewSession, GreetInv
<1>4. ASSUME NEW c \in Conns, NEW key \in {"file", "session"},
             GenerationEnds(c, key)
      PROVE  UNCHANGED sess
  BY <1>4 DEF GenerationEnds
<1>5. ASSUME NEW a \in Accounts, NEW p \in Apps,
             Verify(a, p) \/ clearPending(a, p)
      PROVE  UNCHANGED sess
  BY <1>5 DEF Verify, clearPending
<1>6. ASSUME SetPairingKey \/ (\E a \in Accounts : Registered(a)) \/ UNCHANGED vars
      PROVE  UNCHANGED sess
  BY <1>6 DEF SetPairingKey, Registered, vars, pairVars
<1> QED
  BY <1>1, <1>2, <1>3, <1>4, <1>5, <1>6 DEF Next

(***************************************************************************)
(* Only a message on a connection without a handshake starts a generation  *)
(* under the file key.                                                     *)
(***************************************************************************)
LEMMA DowngradeStep ==
    ASSUME TypeOK, GreetInv, [Next]_vars, NEW d \in Conns,
           sess[d].greeted, "file" \in generating'[d]
    PROVE  "file" \in generating[d]
<1>0. generating \in [Conns -> SUBSET {"file", "session"}]
  BY DEF TypeOK
<1> DEFINE Running == "file" \in generating[d]
<1> SUFFICES Running
  OBVIOUS
<1>1. ASSUME NEW c \in Conns, ReadLoop(c) PROVE Running
  <2>1. CASE Connect(c)
    BY <2>1 DEF Connect
  <2>2. CASE Disconnect(c)
    BY <2>2 DEF Disconnect
  <2>3. CASE HelloBegin(c)
    BY <2>3 DEF HelloBegin
  <2>4. CASE \E p \in Apps : HelloAccepted(c, p)
    BY <2>4 DEF HelloAccepted
  <2>5. CASE HelloRejected(c)
    BY <2>5 DEF HelloRejected
  <2>6. CASE ConfirmRefused(c)
    BY <2>6 DEF ConfirmRefused, Confirming
  <2>7. CASE ConfirmPinned(c)
    BY <2>7 DEF ConfirmPinned, Confirming
  <2>8. CASE recordPending(c)
    BY <2>8 DEF recordPending
  <2>9. CASE FileMessage(c)
    <3>1. c # d
      BY <2>9 DEF FileMessage, UsesFileKey, GreetInv
    <3> QED
      BY <1>0, <2>9, <3>1 DEF FileMessage, Generate
  <2>10. CASE SessionMessage(c)
    BY <1>0, <2>10 DEF SessionMessage, Generate
  <2> QED
    BY <1>1, <2>1, <2>2, <2>3, <2>4, <2>5, <2>6, <2>7, <2>8, <2>9, <2>10 DEF
         ReadLoop
<1>2. ASSUME NEW c \in Conns, NEW key \in {"file", "session"},
     GenerationEnds(c, key) PROVE Running
  BY <1>0, <1>2 DEF GenerationEnds
<1>3. ASSUME NEW a \in Accounts, NEW p \in Apps, Verify(a, p) PROVE Running
  BY <1>3 DEF Verify
<1>4. ASSUME NEW a \in Accounts, NEW p \in Apps, clearPending(a, p) PROVE Running
  BY <1>4 DEF clearPending
<1>5. CASE SetPairingKey
  BY <1>5 DEF SetPairingKey
<1>6. ASSUME NEW a \in Accounts, Registered(a) PROVE Running
  BY <1>6 DEF Registered
<1>7. CASE Restart
  BY <1>7 DEF Restart
<1>8. CASE UNCHANGED vars
  BY <1>8 DEF vars, pairVars
<1> QED
  BY <1>1, <1>2, <1>3, <1>4, <1>5, <1>6, <1>7, <1>8 DEF Next

(***************************************************************************)
(* Once a pair_hello arrived, no generation starts on that connection      *)
(* under the shared pairing.key: handleHello latches before anything about *)
(* the hello is checked, and nothing clears the latch (Handle).            *)
(***************************************************************************)
THEOREM DowngradeCorrect == Spec => NoDowngrade
<1>1. Init => GreetInv
  BY DEF Init, NewSession, GreetInv
<1>2. TypeOK /\ GreetInv /\ [Next]_vars => GreetInv'
  BY GreetStep
<1>3. TypeOK /\ GreetInv /\ [Next]_vars =>
        [\A c \in Conns :
           sess[c].greeted /\ "file" \in generating'[c] => "file" \in generating[c]]_vars
  BY DowngradeStep
<1> QED
  BY <1>1, <1>2, <1>3, TypeCorrect, PTL DEF Spec, NoDowngrade
=============================================================================
