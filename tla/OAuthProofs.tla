----------------------------- MODULE OAuthProofs -----------------------------
(***************************************************************************)
(* Proofs about OAuth for every set of sign-ins and callers and any number *)
(* of rotations of a refresh token.                                        *)
(***************************************************************************)
EXTENDS OAuth, TLAPS

-----------------------------------------------------------------------------
(***************************************************************************)
(* The inductive invariant.                                                *)
(***************************************************************************)
\* The sign-ins that have not led to a grant yet.
Ungranted == (Flows \ started) \cup Slot \cup exchanging

\* A flow in the slot was started, and is not spent unless it expired; one that
\* is exchanged is; until it is exchanged nobody has a credential of it.
FlowInv ==
    /\ Slot \cup exchanging \cup spent \subseteq started
    /\ exchanging \subseteq spent /\ exchanging \cap Slot = {}
    /\ ~expired => spent \cap Slot = {}
    /\ \A f \in Ungranted : /\ latest[f] = 0
                            /\ file.grant # f /\ cred.grant # f
                            /\ f \notin forgotten

\* What is cached is honoured or about to be replaced, and what is stored of
\* the same grant is the same or known to be older.
LiveInv ==
    /\ StoredTokenLive
    /\ loaded => \/ cred.gen = latest[cred.grant]
                 \/ cred.grant \in doubtful
                 \/ holder # Nobody /\ answer = "rotated"
    /\ loaded /\ file.grant = cred.grant => file = cred \/ cred.grant \in doubtful
    /\ answer = "same" => cred.gen = latest[cred.grant]

\* The file is of the last sign-in, unless a refresh under way saved over it or
\* the panel passed over the cache; the cache and the file part only while an
\* Invalidate is still to come.
CacheInv ==
    /\ file = None => newest = NoFlow
    /\ file.grant = newest \/ newest \in undone \cup overtaken
    /\ loaded /\ unfinished = {} /\ disconnect # "invalidating"
         => \/ newest \in overtaken
            \/ cred = file
            \/ cred.grant = file.grant /\ cred.grant \in doubtful

\* A forgotten grant is neither stored nor cached once its DELETE is answered.
ForgetInv ==
    /\ DisconnectForgets
    /\ disconnect # "invalidating" /\ loaded => cred.grant \notin forgotten

-----------------------------------------------------------------------------
\* A credential is a record, and None belongs to no flow.
LEMMA CredentialFields ==
    /\ None.grant = NoFlow /\ None.gen = 0
    /\ \A c \in Credential : c.grant \in Flows /\ c.gen \in 0..MaxGen /\ c # None
    /\ \A f \in Flows : [grant |-> f, gen |-> 0] \in Credential
    /\ \A c, d \in Credential : c.grant = d.grant /\ c.gen = d.gen => c = d
  BY OAuthAssumption DEF Credential, None

\* The outcome of a refresh, field by field.
LEMMA RefreshedFields ==
    ASSUME TypeOK, loaded
    PROVE  /\ Refreshed \in Credential
           /\ Refreshed.grant = cred.grant
           /\ Refreshed.gen = IF answer = "rotated" THEN latest[cred.grant]
                              ELSE cred.gen
           /\ answer # "rotated" => Refreshed = cred
  BY CredentialFields DEF TypeOK, Refreshed, Credential

(***************************************************************************)
(* Types.                                                                  *)
(***************************************************************************)
LEMMA TypeStep == TypeOK /\ [Next]_vars => TypeOK'
<1> SUFFICES ASSUME TypeOK, [Next]_vars PROVE TypeOK'
  OBVIOUS
<1>1. ASSUME NEW c \in Callers, TokenCached(c) PROVE TypeOK'
  BY OAuthAssumption, CredentialFields, <1>1 DEF TokenCached, Locks, Loads,
       TypeOK, Answers, sourceVars, flowVars, adminVars, loginVars
<1>2. ASSUME NEW c \in Callers, RefreshSend(c) PROVE TypeOK'
  BY OAuthAssumption, CredentialFields, <1>2 DEF RefreshSend, Locks, Loads,
       TypeOK, Answers, sourceVars, flowVars, adminVars, loginVars
<1>3. ASSUME NEW c \in Callers, RefreshOk(c) PROVE TypeOK'
  <2>1. loaded /\ Refreshed \in Credential /\ Refreshed # None
    BY <1>3, RefreshedFields, CredentialFields, OAuthAssumption
         DEF RefreshOk, TypeOK
  <2>2. cred.grant \in Flows
    BY <2>1, CredentialFields DEF TypeOK
  <2>3. cred' = Refreshed /\ file' \in {file, Refreshed}
           /\ doubtful' \in {doubtful, doubtful \cup {cred.grant}}
           /\ undone' \in {undone, undone \cup {file.grant}}
    BY <1>3 DEF RefreshOk, SaveOAuthCredential
  <2>4. file.grant \in Flows \cup {NoFlow}
    BY CredentialFields DEF TypeOK
  <2> QED
    BY <1>3, <2>1, <2>2, <2>3, <2>4 DEF RefreshOk, TypeOK, Answers, flowVars,
         adminVars
<1>4. ASSUME NEW c \in Callers, RefreshFailed(c) PROVE TypeOK'
  BY OAuthAssumption, CredentialFields, <1>4 DEF RefreshFailed, TypeOK,
       Answers, sourceVars, flowVars, adminVars, loginVars
<1>5. CASE ServerRefresh
  BY OAuthAssumption, CredentialFields, <1>5 DEF ServerRefresh, TypeOK,
       Answers, sourceVars, flowVars, adminVars, loginVars
<1>6. CASE RefreshLost
  BY OAuthAssumption, CredentialFields, <1>6 DEF RefreshLost, TypeOK, Answers,
       sourceVars, flowVars, adminVars, loginVars
<1>7. ASSUME NEW f \in Flows, StartFlow(f) PROVE TypeOK'
  BY OAuthAssumption, CredentialFields, <1>7 DEF StartFlow, BeginFlow, Slot,
       TypeOK, Answers, sourceVars, flowVars, adminVars, loginVars
<1>8. ASSUME NEW f \in Flows, Callback(f) PROVE TypeOK'
  BY OAuthAssumption, CredentialFields, <1>8 DEF Callback, Take, Slot, TypeOK,
       Answers, sourceVars, flowVars, adminVars, loginVars
<1>9. ASSUME NEW f \in Flows, ExchangeOk(f) PROVE TypeOK'
  BY OAuthAssumption, CredentialFields, <1>9 DEF ExchangeOk,
       SaveOAuthCredential, TypeOK, Answers, sourceVars, flowVars, adminVars,
       loginVars
<1>10. ASSUME NEW f \in Flows, ExchangeFailed(f) PROVE TypeOK'
  BY OAuthAssumption, CredentialFields, <1>10 DEF ExchangeFailed, TypeOK,
       Answers, sourceVars, flowVars, adminVars, loginVars
<1>11. ASSUME NEW f \in Flows, SaveFinish(f) PROVE TypeOK'
  BY OAuthAssumption, CredentialFields, <1>11 DEF SaveFinish, TypeOK, Answers,
       sourceVars, flowVars, adminVars, loginVars
<1>12. CASE FlowExpires
  BY <1>12 DEF FlowExpires, Slot, TypeOK, sourceVars, adminVars, loginVars
<1>13. CASE CallbackRejected
  BY OAuthAssumption, CredentialFields, <1>13 DEF CallbackRejected, Take,
       Slot, TypeOK, Answers, sourceVars, flowVars, adminVars, loginVars
<1>14. CASE DisconnectClear
  BY OAuthAssumption, CredentialFields, <1>14 DEF DisconnectClear, Take, Slot,
       TypeOK, Answers, sourceVars, flowVars, adminVars, loginVars
<1>15. CASE DisconnectRemove
  BY OAuthAssumption, CredentialFields, <1>15 DEF DisconnectRemove, TypeOK,
       Answers, sourceVars, flowVars, adminVars, loginVars
<1>16. CASE DisconnectFailed
  BY OAuthAssumption, CredentialFields, <1>16 DEF DisconnectFailed, TypeOK,
       Answers, sourceVars, flowVars, adminVars, loginVars
<1>17. CASE DisconnectFinish
  BY OAuthAssumption, CredentialFields, <1>17 DEF DisconnectFinish, Forgets,
       TypeOK, Answers, sourceVars, flowVars, adminVars, loginVars
<1>18. CASE PanelBegin
  BY OAuthAssumption, CredentialFields, <1>18 DEF PanelBegin, TypeOK, Answers,
       sourceVars, flowVars, adminVars, loginVars
<1>19. ASSUME NEW f \in Flows, PanelStores(f) PROVE TypeOK'
  BY OAuthAssumption, CredentialFields, <1>19 DEF PanelStores, BeginFlow,
       SaveOAuthCredential, TypeOK, Answers, sourceVars, flowVars, adminVars,
       loginVars
<1>20. CASE PanelGivesUp
  BY OAuthAssumption, CredentialFields, <1>20 DEF PanelGivesUp, TypeOK,
       Answers, sourceVars, flowVars, adminVars, loginVars
<1>21. CASE Restart
  BY OAuthAssumption, CredentialFields, <1>21, ZenonT(60) DEF Restart,
       TypeOK, Answers,
       sourceVars, flowVars, adminVars, loginVars
<1>22. CASE UNCHANGED vars
  BY OAuthAssumption, CredentialFields, <1>22 DEF vars, TypeOK, Answers,
       sourceVars, flowVars, adminVars, loginVars
<1> QED
  BY <1>1, <1>2, <1>3, <1>4, <1>5, <1>6, <1>7, <1>8, <1>9, <1>10, <1>11,
       <1>12, <1>13, <1>14, <1>15, <1>16, <1>17, <1>18, <1>19, <1>20, <1>21,
       <1>22 DEF Next, Token

\* The credential file, the cache and the calls of Token, Save and Disconnect
\* under way keep their types, for any number of callers and flows.
THEOREM TypeCorrect == Spec => []TypeOK
<1>1. Init => TypeOK
  BY OAuthAssumption, CredentialFields, ZenonT(60) DEF Init, TypeOK, Answers
<1> QED
  BY <1>1, TypeStep, PTL DEF Spec

-----------------------------------------------------------------------------
(***************************************************************************)
(* Flows.                                                                  *)
(***************************************************************************)
LEMMA FlowStep == TypeOK /\ FlowInv /\ [Next]_vars => FlowInv'
<1> SUFFICES ASSUME TypeOK, FlowInv, [Next]_vars PROVE FlowInv'
  OBVIOUS
<1>1. ASSUME NEW c \in Callers, TokenCached(c) PROVE FlowInv'
  BY OAuthAssumption, CredentialFields, <1>1 DEF TokenCached, Locks, Loads,
       FlowInv, Ungranted, Slot, TypeOK, sourceVars, flowVars, adminVars,
       loginVars
<1>2. ASSUME NEW c \in Callers, RefreshSend(c) PROVE FlowInv'
  BY OAuthAssumption, CredentialFields, <1>2 DEF RefreshSend, Locks, Loads,
       FlowInv, Ungranted, Slot, TypeOK, sourceVars, flowVars, adminVars,
       loginVars
<1>3. ASSUME NEW c \in Callers, RefreshOk(c) PROVE FlowInv'
  <2>1. loaded /\ Refreshed.grant = cred.grant
    BY <1>3, RefreshedFields, OAuthAssumption DEF RefreshOk, TypeOK
  <2> QED
    BY <1>3, <2>1 DEF RefreshOk, SaveOAuthCredential, FlowInv, Ungranted, Slot,
         flowVars, adminVars
<1>4. ASSUME NEW c \in Callers, RefreshFailed(c) PROVE FlowInv'
  BY OAuthAssumption, CredentialFields, <1>4 DEF RefreshFailed, FlowInv,
       Ungranted, Slot, TypeOK, sourceVars, flowVars, adminVars, loginVars
<1>5. CASE ServerRefresh
  <2>1. cred.grant \in Flows /\ cred.grant \notin Ungranted
    BY <1>5, CredentialFields DEF ServerRefresh, FlowInv, TypeOK
  <2> QED
    BY <1>5, <2>1 DEF ServerRefresh, FlowInv, Ungranted, Slot, TypeOK,
         flowVars,
         adminVars
<1>6. CASE RefreshLost
  BY OAuthAssumption, CredentialFields, <1>6 DEF RefreshLost, FlowInv,
       Ungranted, Slot, TypeOK, sourceVars, flowVars, adminVars, loginVars
<1>7. ASSUME NEW f \in Flows, StartFlow(f) PROVE FlowInv'
  BY OAuthAssumption, CredentialFields, <1>7 DEF StartFlow, BeginFlow, Slot,
       FlowInv, Ungranted, TypeOK, sourceVars, flowVars, adminVars, loginVars
<1>8. ASSUME NEW f \in Flows, Callback(f) PROVE FlowInv'
  BY OAuthAssumption, CredentialFields, <1>8 DEF Callback, Take, Slot,
       FlowInv, Ungranted, TypeOK, sourceVars, flowVars, adminVars, loginVars
<1>9. ASSUME NEW f \in Flows, ExchangeOk(f) PROVE FlowInv'
  BY OAuthAssumption, CredentialFields, <1>9 DEF ExchangeOk,
       SaveOAuthCredential, FlowInv, Ungranted, Slot, TypeOK, sourceVars,
       flowVars, adminVars, loginVars
<1>10. ASSUME NEW f \in Flows, ExchangeFailed(f) PROVE FlowInv'
  BY OAuthAssumption, CredentialFields, <1>10 DEF ExchangeFailed, FlowInv,
       Ungranted, Slot, TypeOK, sourceVars, flowVars, adminVars, loginVars
<1>11. ASSUME NEW f \in Flows, SaveFinish(f) PROVE FlowInv'
  BY OAuthAssumption, CredentialFields, <1>11 DEF SaveFinish, FlowInv,
       Ungranted, Slot, TypeOK, sourceVars, flowVars, adminVars, loginVars
<1>12. CASE FlowExpires
  BY OAuthAssumption, CredentialFields, <1>12 DEF FlowExpires, FlowInv,
       Ungranted, Slot, TypeOK, sourceVars, flowVars, adminVars, loginVars
<1>13. CASE CallbackRejected
  BY OAuthAssumption, CredentialFields, <1>13 DEF CallbackRejected, Take,
       Slot, FlowInv, Ungranted, TypeOK, sourceVars, flowVars, adminVars,
       loginVars
<1>14. CASE DisconnectClear
  BY OAuthAssumption, CredentialFields, <1>14 DEF DisconnectClear, Take, Slot,
       FlowInv, Ungranted, TypeOK, sourceVars, flowVars, adminVars, loginVars
<1>15. CASE DisconnectRemove
  BY OAuthAssumption, CredentialFields, <1>15 DEF DisconnectRemove, FlowInv,
       Ungranted, Slot, TypeOK, sourceVars, flowVars, adminVars, loginVars
<1>16. CASE DisconnectFailed
  BY OAuthAssumption, CredentialFields, <1>16 DEF DisconnectFailed, FlowInv,
       Ungranted, Slot, TypeOK, sourceVars, flowVars, adminVars, loginVars
<1>17. CASE DisconnectFinish
  BY OAuthAssumption, CredentialFields, <1>17 DEF DisconnectFinish, Forgets,
       FlowInv, Ungranted, Slot, TypeOK, sourceVars, flowVars, adminVars,
       loginVars
<1>18. CASE PanelBegin
  BY OAuthAssumption, CredentialFields, <1>18 DEF PanelBegin, FlowInv,
       Ungranted, Slot, TypeOK, sourceVars, flowVars, adminVars, loginVars
<1>19. ASSUME NEW f \in Flows, PanelStores(f) PROVE FlowInv'
  BY OAuthAssumption, CredentialFields, <1>19 DEF PanelStores, BeginFlow,
       SaveOAuthCredential, FlowInv, Ungranted, Slot, TypeOK, sourceVars,
       flowVars, adminVars, loginVars
<1>20. CASE PanelGivesUp
  BY OAuthAssumption, CredentialFields, <1>20 DEF PanelGivesUp, FlowInv,
       Ungranted, Slot, TypeOK, sourceVars, flowVars, adminVars, loginVars
<1>21. CASE Restart
  BY OAuthAssumption, CredentialFields, <1>21 DEF Restart, FlowInv, Ungranted,
       Slot, TypeOK, sourceVars, flowVars, adminVars, loginVars
<1>22. CASE UNCHANGED vars
  BY OAuthAssumption, CredentialFields, <1>22 DEF vars, FlowInv, Ungranted,
       Slot, TypeOK, sourceVars, flowVars, adminVars, loginVars
<1> QED
  BY <1>1, <1>2, <1>3, <1>4, <1>5, <1>6, <1>7, <1>8, <1>9, <1>10, <1>11,
       <1>12, <1>13, <1>14, <1>15, <1>16, <1>17, <1>18, <1>19, <1>20, <1>21,
       <1>22 DEF Next, Token

LEMMA FlowCorrect == Spec => []FlowInv
<1>1. Init => FlowInv
  BY OAuthAssumption, CredentialFields DEF Init, FlowInv, Ungranted, Slot
<1> QED
  BY <1>1, FlowStep, TypeCorrect, PTL DEF Spec

-----------------------------------------------------------------------------
(***************************************************************************)
(* Tokens.                                                                 *)
(***************************************************************************)
LEMMA LiveStep == TypeOK /\ FlowInv /\ LiveInv /\ [Next]_vars => LiveInv'
<1> SUFFICES ASSUME TypeOK, FlowInv, LiveInv, [Next]_vars PROVE LiveInv'
  OBVIOUS
<1>1. ASSUME NEW c \in Callers, TokenCached(c) PROVE LiveInv'
  BY OAuthAssumption, CredentialFields, <1>1 DEF TokenCached, Locks, Loads,
       LiveInv, StoredTokenLive, FlowInv, Ungranted, Slot, TypeOK, sourceVars,
       flowVars, adminVars, loginVars
<1>2. ASSUME NEW c \in Callers, RefreshSend(c) PROVE LiveInv'
  BY OAuthAssumption, CredentialFields, <1>2 DEF RefreshSend, Locks, Loads,
       LiveInv, StoredTokenLive, FlowInv, Ungranted, Slot, TypeOK, sourceVars,
       flowVars, adminVars, loginVars
<1>3. ASSUME NEW c \in Callers, RefreshOk(c) PROVE LiveInv'
  <2>1. loaded /\ cred \in Credential
    BY <1>3, OAuthAssumption DEF RefreshOk, TypeOK
  <2>2. /\ Refreshed \in Credential /\ Refreshed.grant = cred.grant
        /\ Refreshed.gen = IF answer = "rotated" THEN latest[cred.grant] ELSE cred.gen
        /\ answer # "rotated" => Refreshed = cred
    BY <2>1, RefreshedFields
  <2>3. cred' = Refreshed /\ holder' = Nobody /\ answer' = "none"
           /\ UNCHANGED <<loaded, latest>>
    BY <1>3 DEF RefreshOk
  <2>4. CASE file' = Refreshed /\ UNCHANGED doubtful
    BY <1>3, <2>1, <2>2, <2>3, <2>4, CredentialFields
      DEF RefreshOk, LiveInv, StoredTokenLive
  <2>5. CASE file' = file /\ doubtful' = IF answer = "rotated"
                THEN doubtful \cup {cred.grant} ELSE doubtful
    BY <1>3, <2>1, <2>2, <2>3, <2>5, CredentialFields
      DEF RefreshOk, LiveInv, StoredTokenLive
  <2> QED
    BY <1>3, <2>4, <2>5 DEF RefreshOk, SaveOAuthCredential
<1>4. ASSUME NEW c \in Callers, RefreshFailed(c) PROVE LiveInv'
  BY OAuthAssumption, CredentialFields, <1>4 DEF RefreshFailed, LiveInv,
       StoredTokenLive, FlowInv, Ungranted, Slot, TypeOK, sourceVars,
       flowVars, adminVars, loginVars
<1>5. CASE ServerRefresh
  BY OAuthAssumption, CredentialFields, <1>5 DEF ServerRefresh, LiveInv,
       StoredTokenLive, FlowInv, Ungranted, Slot, TypeOK, sourceVars,
       flowVars, adminVars, loginVars
<1>6. CASE RefreshLost
  BY OAuthAssumption, CredentialFields, <1>6 DEF RefreshLost, LiveInv,
       StoredTokenLive, FlowInv, Ungranted, Slot, TypeOK, sourceVars,
       flowVars, adminVars, loginVars
<1>7. ASSUME NEW f \in Flows, StartFlow(f) PROVE LiveInv'
  BY OAuthAssumption, CredentialFields, <1>7 DEF StartFlow, BeginFlow, Slot,
       LiveInv, StoredTokenLive, FlowInv, Ungranted, TypeOK, sourceVars,
       flowVars, adminVars, loginVars
<1>8. ASSUME NEW f \in Flows, Callback(f) PROVE LiveInv'
  BY OAuthAssumption, CredentialFields, <1>8 DEF Callback, Take, Slot,
       LiveInv, StoredTokenLive, FlowInv, Ungranted, TypeOK, sourceVars,
       flowVars, adminVars, loginVars
<1>9. ASSUME NEW f \in Flows, ExchangeOk(f) PROVE LiveInv'
  BY OAuthAssumption, CredentialFields, <1>9 DEF ExchangeOk,
       SaveOAuthCredential, LiveInv, StoredTokenLive, FlowInv, Ungranted,
       Slot, TypeOK, sourceVars, flowVars, adminVars, loginVars
<1>10. ASSUME NEW f \in Flows, ExchangeFailed(f) PROVE LiveInv'
  BY OAuthAssumption, CredentialFields, <1>10 DEF ExchangeFailed, LiveInv,
       StoredTokenLive, FlowInv, Ungranted, Slot, TypeOK, sourceVars,
       flowVars, adminVars, loginVars
<1>11. ASSUME NEW f \in Flows, SaveFinish(f) PROVE LiveInv'
  BY OAuthAssumption, CredentialFields, <1>11 DEF SaveFinish, LiveInv,
       StoredTokenLive, FlowInv, Ungranted, Slot, TypeOK, sourceVars,
       flowVars, adminVars, loginVars
<1>12. CASE FlowExpires
  BY OAuthAssumption, CredentialFields, <1>12 DEF FlowExpires, LiveInv,
       StoredTokenLive, FlowInv, Ungranted, Slot, TypeOK, sourceVars,
       flowVars, adminVars, loginVars
<1>13. CASE CallbackRejected
  BY OAuthAssumption, CredentialFields, <1>13 DEF CallbackRejected, Take,
       Slot, LiveInv, StoredTokenLive, FlowInv, Ungranted, TypeOK, sourceVars,
       flowVars, adminVars, loginVars
<1>14. CASE DisconnectClear
  BY OAuthAssumption, CredentialFields, <1>14 DEF DisconnectClear, Take, Slot,
       LiveInv, StoredTokenLive, FlowInv, Ungranted, TypeOK, sourceVars,
       flowVars, adminVars, loginVars
<1>15. CASE DisconnectRemove
  BY OAuthAssumption, CredentialFields, <1>15 DEF DisconnectRemove, LiveInv,
       StoredTokenLive, FlowInv, Ungranted, Slot, TypeOK, sourceVars,
       flowVars, adminVars, loginVars
<1>16. CASE DisconnectFailed
  BY OAuthAssumption, CredentialFields, <1>16 DEF DisconnectFailed, LiveInv,
       StoredTokenLive, FlowInv, Ungranted, Slot, TypeOK, sourceVars,
       flowVars, adminVars, loginVars
<1>17. CASE DisconnectFinish
  BY OAuthAssumption, CredentialFields, <1>17 DEF DisconnectFinish, Forgets,
       LiveInv, StoredTokenLive, FlowInv, Ungranted, Slot, TypeOK, sourceVars,
       flowVars, adminVars, loginVars
<1>18. CASE PanelBegin
  BY OAuthAssumption, CredentialFields, <1>18 DEF PanelBegin, LiveInv,
       StoredTokenLive, FlowInv, Ungranted, Slot, TypeOK, sourceVars,
       flowVars, adminVars, loginVars
<1>19. ASSUME NEW f \in Flows, PanelStores(f) PROVE LiveInv'
  BY OAuthAssumption, CredentialFields, <1>19 DEF PanelStores, BeginFlow,
       SaveOAuthCredential, LiveInv, StoredTokenLive, FlowInv, Ungranted,
       Slot, TypeOK, sourceVars, flowVars, adminVars, loginVars
<1>20. CASE PanelGivesUp
  BY OAuthAssumption, CredentialFields, <1>20 DEF PanelGivesUp, LiveInv,
       StoredTokenLive, FlowInv, Ungranted, Slot, TypeOK, sourceVars,
       flowVars, adminVars, loginVars
<1>21. CASE Restart
  BY OAuthAssumption, CredentialFields, <1>21 DEF Restart, LiveInv,
       StoredTokenLive, FlowInv, Ungranted, Slot, TypeOK, sourceVars,
       flowVars, adminVars, loginVars
<1>22. CASE UNCHANGED vars
  BY OAuthAssumption, CredentialFields, <1>22 DEF vars, LiveInv,
       StoredTokenLive, FlowInv, Ungranted, Slot, TypeOK, sourceVars,
       flowVars, adminVars, loginVars
<1> QED
  BY <1>1, <1>2, <1>3, <1>4, <1>5, <1>6, <1>7, <1>8, <1>9, <1>10, <1>11,
       <1>12, <1>13, <1>14, <1>15, <1>16, <1>17, <1>18, <1>19, <1>20, <1>21,
       <1>22 DEF Next, Token

LEMMA LiveCorrect == Spec => []LiveInv
<1>1. Init => LiveInv
  BY DEF Init, LiveInv, StoredTokenLive
<1> QED
  BY <1>1, LiveStep, TypeCorrect, FlowCorrect, PTL DEF Spec

(***************************************************************************)
(* The node is not locked out of its grant: whatever calls of Token,       *)
(* sign-ins, disconnects and restarts overlap, the stored refresh token is *)
(* one the control plane honours, up to a lost answer or a failed save.    *)
(***************************************************************************)
THEOREM StoredCorrect == Spec => []StoredTokenLive
<1>1. LiveInv => StoredTokenLive
  BY DEF LiveInv
<1> QED
  BY <1>1, LiveCorrect, PTL

(***************************************************************************)
(* Token presents no refresh token that was replaced: the mutex, held      *)
(* across load, refresh and save, makes refreshes single-flight.           *)
(***************************************************************************)
THEOREM ReuseCorrect == Spec => []NoTokenReuse
<1>1. TypeOK /\ LiveInv => NoTokenReuse
  BY DEF TypeOK, LiveInv, NoTokenReuse
<1> QED
  BY <1>1, TypeCorrect, LiveCorrect, PTL

-----------------------------------------------------------------------------
(***************************************************************************)
(* The cache.                                                              *)
(***************************************************************************)
LEMMA CacheStep == TypeOK /\ FlowInv /\ LiveInv /\ CacheInv /\ [Next]_vars => CacheInv'
<1> SUFFICES ASSUME TypeOK, FlowInv, LiveInv, CacheInv, [Next]_vars PROVE CacheInv'
  OBVIOUS
<1>1. ASSUME NEW c \in Callers, TokenCached(c) PROVE CacheInv'
  BY OAuthAssumption, CredentialFields, <1>1 DEF TokenCached, Locks, Loads,
       CacheInv, LiveInv, FlowInv, Ungranted, Slot, TypeOK, sourceVars,
       flowVars, adminVars, loginVars
<1>2. ASSUME NEW c \in Callers, RefreshSend(c) PROVE CacheInv'
  BY OAuthAssumption, CredentialFields, <1>2 DEF RefreshSend, Locks, Loads,
       CacheInv, LiveInv, FlowInv, Ungranted, Slot, TypeOK, sourceVars,
       flowVars, adminVars, loginVars
<1>3. ASSUME NEW c \in Callers, RefreshOk(c) PROVE CacheInv'
  <2>1. loaded /\ cred \in Credential
    BY <1>3, OAuthAssumption DEF RefreshOk, TypeOK
  <2>2. /\ Refreshed \in Credential /\ Refreshed.grant = cred.grant
        /\ Refreshed.gen = IF answer = "rotated" THEN latest[cred.grant] ELSE cred.gen
        /\ answer # "rotated" => Refreshed = cred
    BY <2>1, RefreshedFields
  <2>3. cred' = Refreshed /\ holder' = Nobody /\ answer' = "none"
           /\ UNCHANGED <<loaded, latest>>
    BY <1>3 DEF RefreshOk
  <2>4. CASE file' = Refreshed /\ UNCHANGED doubtful
    <3>1. file' # None /\ cred' = file' /\ file'.grant = cred.grant
             /\ UNCHANGED <<newest, overtaken>>
      BY <1>3, <2>2, <2>3, <2>4, CredentialFields DEF RefreshOk
    <3>2. CASE undone' = undone /\ file' = file
      BY <3>1, <3>2 DEF CacheInv
    <3>3. CASE SavesOver /\ undone' = undone \cup {file.grant}
      BY <3>1, <3>3 DEF CacheInv
    <3>4. CASE ~SavesOver /\ undone' = undone
      <4>1. cred.grant = file.grant \/ newest \in overtaken
        BY <2>1, <3>4 DEF SavesOver, CacheInv
      <4> QED
        BY <3>1, <3>4, <4>1 DEF CacheInv
    <3> QED
      BY <1>3, <2>4, <3>2, <3>3, <3>4 DEF RefreshOk
  <2>5. CASE file' = file /\ doubtful' = IF answer = "rotated"
                THEN doubtful \cup {cred.grant} ELSE doubtful
    BY <1>3, <2>1, <2>2, <2>3, <2>5, CredentialFields
      DEF RefreshOk, CacheInv, adminVars, loginVars
  <2> QED
    BY <1>3, <2>4, <2>5 DEF RefreshOk, SaveOAuthCredential
<1>4. ASSUME NEW c \in Callers, RefreshFailed(c) PROVE CacheInv'
  BY OAuthAssumption, CredentialFields, <1>4 DEF RefreshFailed, CacheInv,
       LiveInv, FlowInv, Ungranted, Slot, TypeOK, sourceVars, flowVars,
       adminVars, loginVars
<1>5. CASE ServerRefresh
  BY OAuthAssumption, CredentialFields, <1>5 DEF ServerRefresh, CacheInv,
       LiveInv, FlowInv, Ungranted, Slot, TypeOK, sourceVars, flowVars,
       adminVars, loginVars
<1>6. CASE RefreshLost
  BY OAuthAssumption, CredentialFields, <1>6 DEF RefreshLost, CacheInv,
       LiveInv, FlowInv, Ungranted, Slot, TypeOK, sourceVars, flowVars,
       adminVars, loginVars
<1>7. ASSUME NEW f \in Flows, StartFlow(f) PROVE CacheInv'
  BY OAuthAssumption, CredentialFields, <1>7 DEF StartFlow, BeginFlow, Slot,
       CacheInv, LiveInv, FlowInv, Ungranted, TypeOK, sourceVars, flowVars,
       adminVars, loginVars
<1>8. ASSUME NEW f \in Flows, Callback(f) PROVE CacheInv'
  BY OAuthAssumption, CredentialFields, <1>8 DEF Callback, Take, Slot,
       CacheInv, LiveInv, FlowInv, Ungranted, TypeOK, sourceVars, flowVars,
       adminVars, loginVars
<1>9. ASSUME NEW f \in Flows, ExchangeOk(f) PROVE CacheInv'
  BY OAuthAssumption, CredentialFields, <1>9 DEF ExchangeOk,
       SaveOAuthCredential, CacheInv, LiveInv, FlowInv, Ungranted, Slot,
       TypeOK, sourceVars, flowVars, adminVars, loginVars
<1>10. ASSUME NEW f \in Flows, ExchangeFailed(f) PROVE CacheInv'
  BY OAuthAssumption, CredentialFields, <1>10 DEF ExchangeFailed, CacheInv,
       LiveInv, FlowInv, Ungranted, Slot, TypeOK, sourceVars, flowVars,
       adminVars, loginVars
<1>11. ASSUME NEW f \in Flows, SaveFinish(f) PROVE CacheInv'
  BY OAuthAssumption, CredentialFields, <1>11 DEF SaveFinish, CacheInv,
       LiveInv, FlowInv, Ungranted, Slot, TypeOK, sourceVars, flowVars,
       adminVars, loginVars
<1>12. CASE FlowExpires
  BY OAuthAssumption, CredentialFields, <1>12 DEF FlowExpires, CacheInv,
       LiveInv, FlowInv, Ungranted, Slot, TypeOK, sourceVars, flowVars,
       adminVars, loginVars
<1>13. CASE CallbackRejected
  BY OAuthAssumption, CredentialFields, <1>13 DEF CallbackRejected, Take,
       Slot, CacheInv, LiveInv, FlowInv, Ungranted, TypeOK, sourceVars,
       flowVars, adminVars, loginVars
<1>14. CASE DisconnectClear
  BY OAuthAssumption, CredentialFields, <1>14 DEF DisconnectClear, Take, Slot,
       CacheInv, LiveInv, FlowInv, Ungranted, TypeOK, sourceVars, flowVars,
       adminVars, loginVars
<1>15. CASE DisconnectRemove
  BY OAuthAssumption, CredentialFields, <1>15 DEF DisconnectRemove, CacheInv,
       LiveInv, FlowInv, Ungranted, Slot, TypeOK, sourceVars, flowVars,
       adminVars, loginVars
<1>16. CASE DisconnectFailed
  BY OAuthAssumption, CredentialFields, <1>16 DEF DisconnectFailed, CacheInv,
       LiveInv, FlowInv, Ungranted, Slot, TypeOK, sourceVars, flowVars,
       adminVars, loginVars
<1>17. CASE DisconnectFinish
  BY OAuthAssumption, CredentialFields, <1>17 DEF DisconnectFinish, Forgets,
       CacheInv, LiveInv, FlowInv, Ungranted, Slot, TypeOK, sourceVars,
       flowVars, adminVars, loginVars
<1>18. CASE PanelBegin
  BY OAuthAssumption, CredentialFields, <1>18 DEF PanelBegin, CacheInv,
       LiveInv, FlowInv, Ungranted, Slot, TypeOK, sourceVars, flowVars,
       adminVars, loginVars
<1>19. ASSUME NEW f \in Flows, PanelStores(f) PROVE CacheInv'
  BY OAuthAssumption, CredentialFields, <1>19 DEF PanelStores, BeginFlow,
       SaveOAuthCredential, CacheInv, LiveInv, FlowInv, Ungranted, Slot,
       TypeOK, sourceVars, flowVars, adminVars, loginVars
<1>20. CASE PanelGivesUp
  BY OAuthAssumption, CredentialFields, <1>20 DEF PanelGivesUp, CacheInv,
       LiveInv, FlowInv, Ungranted, Slot, TypeOK, sourceVars, flowVars,
       adminVars, loginVars
<1>21. CASE Restart
  BY OAuthAssumption, CredentialFields, <1>21 DEF Restart, CacheInv, LiveInv,
       FlowInv, Ungranted, Slot, TypeOK, sourceVars, flowVars, adminVars,
       loginVars
<1>22. CASE UNCHANGED vars
  BY OAuthAssumption, CredentialFields, <1>22 DEF vars, CacheInv, LiveInv,
       FlowInv, Ungranted, Slot, TypeOK, sourceVars, flowVars, adminVars,
       loginVars
<1> QED
  BY <1>1, <1>2, <1>3, <1>4, <1>5, <1>6, <1>7, <1>8, <1>9, <1>10, <1>11,
       <1>12, <1>13, <1>14, <1>15, <1>16, <1>17, <1>18, <1>19, <1>20, <1>21,
       <1>22 DEF Next, Token

(***************************************************************************)
(* Once the calls that changed the credential are over, Token serves the   *)
(* credential of the file, and that is the one of the last sign-in, or     *)
(* none after a DELETE: Invalidate is not forgotten and not overtaken, and *)
(* nothing but a refresh that was under way when the file changed, or a    *)
(* sign-in of the panel, takes it back.                                    *)
(***************************************************************************)
THEOREM CacheCorrect == Spec => []CacheAgrees
<1>1. Init => CacheInv
  BY CredentialFields DEF Init, CacheInv
<1>2. CacheInv => CacheAgrees
  BY DEF CacheInv, CacheAgrees
<1> QED
  BY <1>1, <1>2, CacheStep, TypeCorrect, FlowCorrect, LiveCorrect, PTL DEF Spec

-----------------------------------------------------------------------------
(***************************************************************************)
(* Disconnecting.                                                          *)
(***************************************************************************)
LEMMA ForgetStep == TypeOK /\ FlowInv /\ ForgetInv /\ [Next]_vars => ForgetInv'
<1> SUFFICES ASSUME TypeOK, FlowInv, ForgetInv, [Next]_vars PROVE ForgetInv'
  OBVIOUS
<1>1. ASSUME NEW c \in Callers, TokenCached(c) PROVE ForgetInv'
  BY OAuthAssumption, CredentialFields, <1>1 DEF TokenCached, Locks, Loads,
       ForgetInv, DisconnectForgets, FlowInv, Ungranted, Slot, TypeOK,
       sourceVars, flowVars, adminVars, loginVars
<1>2. ASSUME NEW c \in Callers, RefreshSend(c) PROVE ForgetInv'
  BY OAuthAssumption, CredentialFields, <1>2 DEF RefreshSend, Locks, Loads,
       ForgetInv, DisconnectForgets, FlowInv, Ungranted, Slot, TypeOK,
       sourceVars, flowVars, adminVars, loginVars
<1>3. ASSUME NEW c \in Callers, RefreshOk(c) PROVE ForgetInv'
  <2>1. loaded /\ cred \in Credential
    BY <1>3, OAuthAssumption DEF RefreshOk, TypeOK
  <2>2. /\ Refreshed \in Credential /\ Refreshed.grant = cred.grant
        /\ Refreshed.gen = IF answer = "rotated" THEN latest[cred.grant] ELSE cred.gen
        /\ answer # "rotated" => Refreshed = cred
    BY <2>1, RefreshedFields
  <2>3. cred' = Refreshed /\ holder' = Nobody /\ answer' = "none"
           /\ UNCHANGED <<loaded, latest>>
    BY <1>3 DEF RefreshOk
  <2>4. CASE file' = Refreshed /\ UNCHANGED doubtful
    BY <1>3, <2>1, <2>2, <2>3, <2>4, CredentialFields
      DEF RefreshOk, ForgetInv, DisconnectForgets, adminVars
  <2>5. CASE file' = file /\ doubtful' = IF answer = "rotated"
                THEN doubtful \cup {cred.grant} ELSE doubtful
    BY <1>3, <2>1, <2>2, <2>3, <2>5, CredentialFields
      DEF RefreshOk, ForgetInv, DisconnectForgets, adminVars
  <2> QED
    BY <1>3, <2>4, <2>5 DEF RefreshOk, SaveOAuthCredential
<1>4. ASSUME NEW c \in Callers, RefreshFailed(c) PROVE ForgetInv'
  BY OAuthAssumption, CredentialFields, <1>4 DEF RefreshFailed, ForgetInv,
       DisconnectForgets, FlowInv, Ungranted, Slot, TypeOK, sourceVars,
       flowVars, adminVars, loginVars
<1>5. CASE ServerRefresh
  BY OAuthAssumption, CredentialFields, <1>5 DEF ServerRefresh, ForgetInv,
       DisconnectForgets, FlowInv, Ungranted, Slot, TypeOK, sourceVars,
       flowVars, adminVars, loginVars
<1>6. CASE RefreshLost
  BY OAuthAssumption, CredentialFields, <1>6 DEF RefreshLost, ForgetInv,
       DisconnectForgets, FlowInv, Ungranted, Slot, TypeOK, sourceVars,
       flowVars, adminVars, loginVars
<1>7. ASSUME NEW f \in Flows, StartFlow(f) PROVE ForgetInv'
  BY OAuthAssumption, CredentialFields, <1>7 DEF StartFlow, BeginFlow, Slot,
       ForgetInv, DisconnectForgets, FlowInv, Ungranted, TypeOK, sourceVars,
       flowVars, adminVars, loginVars
<1>8. ASSUME NEW f \in Flows, Callback(f) PROVE ForgetInv'
  BY OAuthAssumption, CredentialFields, <1>8 DEF Callback, Take, Slot,
       ForgetInv, DisconnectForgets, FlowInv, Ungranted, TypeOK, sourceVars,
       flowVars, adminVars, loginVars
<1>9. ASSUME NEW f \in Flows, ExchangeOk(f) PROVE ForgetInv'
  BY OAuthAssumption, CredentialFields, <1>9 DEF ExchangeOk,
       SaveOAuthCredential, ForgetInv, DisconnectForgets, FlowInv, Ungranted,
       Slot, TypeOK, sourceVars, flowVars, adminVars, loginVars
<1>10. ASSUME NEW f \in Flows, ExchangeFailed(f) PROVE ForgetInv'
  BY OAuthAssumption, CredentialFields, <1>10 DEF ExchangeFailed, ForgetInv,
       DisconnectForgets, FlowInv, Ungranted, Slot, TypeOK, sourceVars,
       flowVars, adminVars, loginVars
<1>11. ASSUME NEW f \in Flows, SaveFinish(f) PROVE ForgetInv'
  BY OAuthAssumption, CredentialFields, <1>11 DEF SaveFinish, ForgetInv,
       DisconnectForgets, FlowInv, Ungranted, Slot, TypeOK, sourceVars,
       flowVars, adminVars, loginVars
<1>12. CASE FlowExpires
  BY OAuthAssumption, CredentialFields, <1>12 DEF FlowExpires, ForgetInv,
       DisconnectForgets, FlowInv, Ungranted, Slot, TypeOK, sourceVars,
       flowVars, adminVars, loginVars
<1>13. CASE CallbackRejected
  BY OAuthAssumption, CredentialFields, <1>13 DEF CallbackRejected, Take,
       Slot, ForgetInv, DisconnectForgets, FlowInv, Ungranted, TypeOK,
       sourceVars, flowVars, adminVars, loginVars
<1>14. CASE DisconnectClear
  BY OAuthAssumption, CredentialFields, <1>14 DEF DisconnectClear, Take, Slot,
       ForgetInv, DisconnectForgets, FlowInv, Ungranted, TypeOK, sourceVars,
       flowVars, adminVars, loginVars
<1>15. CASE DisconnectRemove
  BY OAuthAssumption, CredentialFields, <1>15 DEF DisconnectRemove, ForgetInv,
       DisconnectForgets, FlowInv, Ungranted, Slot, TypeOK, sourceVars,
       flowVars, adminVars, loginVars
<1>16. CASE DisconnectFailed
  BY OAuthAssumption, CredentialFields, <1>16 DEF DisconnectFailed, ForgetInv,
       DisconnectForgets, FlowInv, Ungranted, Slot, TypeOK, sourceVars,
       flowVars, adminVars, loginVars
<1>17. CASE DisconnectFinish
  BY OAuthAssumption, CredentialFields, <1>17 DEF DisconnectFinish, Forgets,
       ForgetInv, DisconnectForgets, FlowInv, Ungranted, Slot, TypeOK,
       sourceVars, flowVars, adminVars, loginVars
<1>18. CASE PanelBegin
  BY OAuthAssumption, CredentialFields, <1>18 DEF PanelBegin, ForgetInv,
       DisconnectForgets, FlowInv, Ungranted, Slot, TypeOK, sourceVars,
       flowVars, adminVars, loginVars
<1>19. ASSUME NEW f \in Flows, PanelStores(f) PROVE ForgetInv'
  BY OAuthAssumption, CredentialFields, <1>19 DEF PanelStores, BeginFlow,
       SaveOAuthCredential, ForgetInv, DisconnectForgets, FlowInv, Ungranted,
       Slot, TypeOK, sourceVars, flowVars, adminVars, loginVars
<1>20. CASE PanelGivesUp
  BY OAuthAssumption, CredentialFields, <1>20 DEF PanelGivesUp, ForgetInv,
       DisconnectForgets, FlowInv, Ungranted, Slot, TypeOK, sourceVars,
       flowVars, adminVars, loginVars
<1>21. CASE Restart
  BY OAuthAssumption, CredentialFields, <1>21 DEF Restart, ForgetInv,
       DisconnectForgets, FlowInv, Ungranted, Slot, TypeOK, sourceVars,
       flowVars, adminVars, loginVars
<1>22. CASE UNCHANGED vars
  BY OAuthAssumption, CredentialFields, <1>22 DEF vars, ForgetInv,
       DisconnectForgets, FlowInv, Ungranted, Slot, TypeOK, sourceVars,
       flowVars, adminVars, loginVars
<1> QED
  BY <1>1, <1>2, <1>3, <1>4, <1>5, <1>6, <1>7, <1>8, <1>9, <1>10, <1>11,
       <1>12, <1>13, <1>14, <1>15, <1>16, <1>17, <1>18, <1>19, <1>20, <1>21,
       <1>22 DEF Next, Token

(***************************************************************************)
(* A grant that is gone when the DELETE is answered stays gone: neither    *)
(* the cache, a refresh, a restart nor the panel stores it again.          *)
(***************************************************************************)
THEOREM ForgetCorrect == Spec => []DisconnectForgets
<1>1. Init => ForgetInv
  BY DEF Init, ForgetInv, DisconnectForgets
<1>2. ForgetInv => DisconnectForgets
  BY DEF ForgetInv
<1> QED
  BY <1>1, <1>2, ForgetStep, TypeCorrect, FlowCorrect, PTL DEF Spec

-----------------------------------------------------------------------------
LEMMA ExchangeStep ==
    FlowInv /\ [Next]_vars
        => [\A f \in Flows : f \in exchanging' \ exchanging => f \notin spent]_vars
<1> SUFFICES ASSUME FlowInv, [Next]_vars, NEW f \in Flows, f \in exchanging',
                    f \notin exchanging
             PROVE  f \notin spent
  OBVIOUS
<1>1. CASE Callback(f)
  BY <1>1, OAuthAssumption DEF Callback, FlowInv, Slot
<1>2. CASE \E g \in Flows : g # f /\ Callback(g)
  BY <1>2 DEF Callback
<1>3. CASE UNCHANGED exchanging \/ exchanging' \subseteq exchanging
  BY <1>3
<1> QED
  BY <1>1, <1>2, <1>3 DEF Next, Token, vars, flowVars, TokenCached,
       RefreshSend,
     RefreshOk, RefreshFailed, ServerRefresh, RefreshLost, StartFlow, ExchangeOk,
     ExchangeFailed, SaveFinish, FlowExpires, CallbackRejected, DisconnectClear,
     DisconnectRemove, DisconnectFailed, DisconnectFinish, PanelBegin,
     PanelStores, PanelGivesUp, Restart

(***************************************************************************)
(* take makes a flow single-use: a callback that is repeated, comes after  *)
(* the ten minutes, or races another one never exchanges a code of a flow  *)
(* already given up.                                                       *)
(***************************************************************************)
THEOREM SingleUseCorrect == Spec => FlowSingleUse
  BY ExchangeStep, FlowCorrect, PTL DEF Spec, FlowSingleUse

=============================================================================
