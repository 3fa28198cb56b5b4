-------------------------------- MODULE OAuth --------------------------------
(***************************************************************************)
(* The node's own grant at the control plane: the token source that caches *)
(* and refreshes it (internal/controlplane/oauth.go), the authorization    *)
(* code flow the admin console drives (oauthflow.go and                    *)
(* internal/adminapi/controlplane_auth.go), the two admin operations on    *)
(* the credential file (node.go), and the sign-in of the terminal panel,   *)
(* which runs in the node's process (cmd/onesilo-node).                    *)
(*                                                                         *)
(* Token holds the source's mutex across load, refresh and save; the admin *)
(* handlers change the file without it and take it only for Invalidate.    *)
(* A credential is the grant it belongs to and the generation of its       *)
(* refresh token; whether the access token has expired is a free choice of *)
(* every call.  The authorization server is external: it may replace the   *)
(* refresh token with every use, and refuses one that was replaced.        *)
(***************************************************************************)
EXTENDS Naturals

CONSTANTS Flows,    \* sign-ins; each one that completes is a grant of its own
          NoFlow,
          Callers,  \* goroutines that ask for a token
          Nobody,
          MaxGen    \* bound: how often a grant's refresh token is replaced

ASSUME OAuthAssumption ==
    /\ NoFlow \notin Flows
    /\ Nobody \notin Callers
    /\ MaxGen \in Nat

VARIABLES
    file,        \* <data_dir>/oauth.json
    loaded, cred,   \* OAuthTokenSource
    holder,      \* who holds s.mu across a refresh
    answer,      \* the token endpoint's answer to that refresh
    flow, expired,  \* pendingFlows.flow, and whether it is too old
    exchanging,  \* callbacks waiting for the code exchange
    unfinished,  \* sign-ins that are stored but not yet announced
    disconnect,  \* where a DELETE /v1/controlplane/auth is
    panel,       \* the terminal panel waits for its own callback
    latest,      \* the generation the server honours, per grant
    \* history
    started,     \* the flows put in the slot
    spent,       \* the flows that must not be exchanged any more
    doubtful,    \* the grants with a generation that may not be stored
    forgotten,   \* the grants a DELETE removed for good
    overtaken,   \* the grants the panel stored over another sign-in
    newest,      \* the last sign-in that was stored; NoFlow after a DELETE
    undone       \* what a refresh under way at the time saved over

sourceVars == <<loaded, cred, holder, answer>>
flowVars   == <<flow, expired, exchanging, started, spent>>
adminVars  == <<unfinished, disconnect, forgotten>>
loginVars == <<panel, overtaken, newest, undone>>
vars == <<file, sourceVars, flowVars, adminVars, loginVars, latest, doubtful>>

Credential == [grant: Flows, gen: 0..MaxGen]
None       == [grant |-> NoFlow, gen |-> 0]
Answers    == {"none", "same", "rotated", "refused", "lost"}

TypeOK ==
    /\ file \in Credential \cup {None}
    /\ loaded \in BOOLEAN
    /\ cred \in Credential \cup {None} /\ (loaded => cred # None)
    /\ holder \in Callers \cup {Nobody}
    /\ holder # Nobody => loaded
    /\ answer \in Answers /\ (holder = Nobody => answer = "none")
    /\ flow \in Flows \cup {NoFlow}
    /\ expired \in BOOLEAN
    /\ exchanging \subseteq Flows /\ unfinished \subseteq Flows
    /\ disconnect \in {"idle", "removing", "invalidating"}
    /\ latest \in [Flows -> 0..MaxGen]
    /\ started \subseteq Flows /\ spent \subseteq Flows
    /\ doubtful \subseteq Flows /\ forgotten \subseteq Flows
    /\ panel \in BOOLEAN /\ overtaken \subseteq Flows
    /\ newest \in Flows \cup {NoFlow} /\ undone \subseteq Flows \cup {NoFlow}

Init ==
    /\ file = None
    /\ loaded = FALSE /\ cred = None /\ holder = Nobody /\ answer = "none"
    /\ flow = NoFlow /\ expired = FALSE /\ exchanging = {}
    /\ unfinished = {} /\ disconnect = "idle"
    /\ latest = [f \in Flows |-> 0]
    /\ started = {} /\ spent = {} /\ doubtful = {} /\ forgotten = {}
    /\ panel = FALSE /\ overtaken = {} /\ newest = NoFlow /\ undone = {}

-----------------------------------------------------------------------------
(***************************************************************************)
(* Token.                                                                  *)
(***************************************************************************)
\* Written to a temporary file and renamed: the whole credential or nothing.
SaveOAuthCredential(c) == file' = c

\* LoadOAuthCredential, unless it is cached; ErrNotSignedIn ends the call.
Loads ==
    /\ loaded \/ file # None
    /\ loaded' = TRUE
    /\ cred' = IF loaded THEN cred ELSE file

\* A mutant: the mutex is not held across the refresh.
UnlockedRefresh(c) == TRUE

\* s.mu.Lock
Locks(c) == holder = Nobody

\* The access token is good, or it is not and there is no refresh token.
TokenCached(c) ==
    /\ Locks(c)
    /\ Loads
    /\ UNCHANGED <<file, holder, answer, flowVars, adminVars, latest, doubtful,
                   loginVars>>

\* refreshGrant: the refresh token is sent.
RefreshSend(c) ==
    /\ Locks(c)
    /\ Loads
    /\ holder' = c /\ answer' = "none"
    /\ UNCHANGED <<file, flowVars, adminVars, latest, doubtful, loginVars>>

\* The token endpoint (external).
ServerRefresh ==
    /\ holder # Nobody /\ answer = "none"
    /\ LET g == cred.grant IN
       \/ cred.gen # latest[g] /\ answer' = "refused" /\ UNCHANGED latest
       \/ cred.gen = latest[g] /\ answer' = "same" /\ UNCHANGED latest
       \/ /\ cred.gen = latest[g] /\ latest[g] < MaxGen
          /\ latest' = [latest EXCEPT ![g] = @ + 1]
          /\ answer' = "rotated"
       \/ answer' = "refused" /\ UNCHANGED latest
    /\ UNCHANGED <<file, loaded, cred, holder, flowVars, adminVars, doubtful,
                   loginVars>>

\* A timeout, or an answer that cannot be parsed, whether or not the server
\* handled the request.
RefreshLost ==
    /\ holder # Nobody /\ answer # "lost"
    /\ answer' = "lost"
    /\ doubtful' = IF answer = "rotated" THEN doubtful \cup {cred.grant}
                   ELSE doubtful
    /\ UNCHANGED <<file, loaded, cred, holder, flowVars, adminVars, latest,
                   loginVars>>

Refreshed == IF answer = "rotated" THEN [cred EXCEPT !.gen = latest[cred.grant]]
             ELSE cred

\* A mutant: the cache is updated and the rotated token is not persisted.
RefreshOkUnsaved(c) ==
    /\ holder = c /\ answer \in {"same", "rotated"}
    /\ cred' = Refreshed
    /\ holder' = Nobody /\ answer' = "none"
    /\ UNCHANGED <<file, loaded, doubtful, flowVars, adminVars, latest,
                   loginVars>>

\* The sign-in or removal of another grant is stored, and its Invalidate waits
\* for this refresh.
SavesOver == /\ file.grant # cred.grant
             /\ unfinished # {} \/ disconnect = "invalidating"

\* The new credential is cached, and then saved atomically, whatever the file
\* holds by now; when the save fails the call returns the error and the cache
\* keeps it.
RefreshOk(c) ==
    /\ holder = c /\ answer \in {"same", "rotated"}
    /\ cred' = Refreshed
    /\ \/ /\ SaveOAuthCredential(Refreshed)
          /\ undone' = IF SavesOver THEN undone \cup {file.grant} ELSE undone
          /\ UNCHANGED doubtful
       \/ /\ UNCHANGED <<file, undone>>
          /\ doubtful' = IF answer = "rotated" THEN doubtful \cup {cred.grant}
                         ELSE doubtful
    /\ holder' = Nobody /\ answer' = "none"
    /\ UNCHANGED <<loaded, flowVars, adminVars, latest, panel, overtaken,
                   newest>>

\* The error is returned and the cache stays as it was.
RefreshFailed(c) ==
    /\ holder = c /\ answer \in {"refused", "lost"}
    /\ holder' = Nobody /\ answer' = "none"
    /\ UNCHANGED <<file, loaded, cred, flowVars, adminVars, latest, doubtful,
                   loginVars>>

-----------------------------------------------------------------------------
(***************************************************************************)
(* The console's authorization flow.                                       *)
(***************************************************************************)
Slot == {flow} \ {NoFlow}

\* Discovery, client registration and a state and verifier drawn anew: no flow
\* is begun twice, and nothing is kept yet.
BeginFlow(f) ==
    /\ f \notin started
    /\ started' = started \cup {f}

\* POST start: put replaces what was pending.
StartFlow(f) ==
    /\ BeginFlow(f)
    /\ flow' = f /\ expired' = FALSE
    /\ spent' = spent \cup Slot
    /\ UNCHANGED <<file, sourceVars, exchanging, adminVars, latest, doubtful,
                   loginVars>>

\* Ten minutes pass.  Nothing happens to the slot: take compares the age.
FlowExpires ==
    /\ flow # NoFlow /\ ~expired
    /\ expired' = TRUE
    /\ spent' = spent \cup Slot
    /\ UNCHANGED <<file, sourceVars, flow, exchanging, started, adminVars,
                   latest, doubtful, loginVars>>

\* take: the slot is emptied whatever the state says.
Take(f) ==
    /\ flow' = NoFlow /\ expired' = FALSE
    /\ spent' = spent \cup Slot

\* A mutant: take compares the state and not the age.
CallbackAnyAge(f) ==
    /\ f \in started /\ f = flow
    /\ Take(f)
    /\ exchanging' = exchanging \cup {f}
    /\ UNCHANGED <<file, sourceVars, started, adminVars, latest, doubtful,
                   loginVars>>

\* The callback of a flow started here, with a code: the exchange begins.
Callback(f) ==
    /\ f \in started /\ f = flow /\ ~expired
    /\ Take(f)
    /\ exchanging' = exchanging \cup {f}
    /\ UNCHANGED <<file, sourceVars, started, adminVars, latest, doubtful,
                   loginVars>>

\* The callback of another flow, an expired one, or one without a code; or the
\* human refused (clear).
CallbackRejected ==
    /\ flow # NoFlow
    /\ Take(NoFlow)
    /\ UNCHANGED <<file, sourceVars, exchanging, started, adminVars, latest,
                   doubtful, loginVars>>

\* Exchange and SaveControlPlaneCredential, up to the file.
ExchangeOk(f) ==
    /\ f \in exchanging
    /\ SaveOAuthCredential([grant |-> f, gen |-> 0])
    /\ exchanging' = exchanging \ {f}
    /\ unfinished' = unfinished \cup {f} /\ newest' = f
    /\ UNCHANGED <<sourceVars, flow, expired, started, spent, disconnect,
                   forgotten, latest, doubtful, panel, overtaken, undone>>

\* The code was refused, the exchange timed out, or the save failed.
ExchangeFailed(f) ==
    /\ f \in exchanging
    /\ exchanging' = exchanging \ {f}
    /\ UNCHANGED <<file, sourceVars, flow, expired, started, spent, adminVars,
                   latest, doubtful, loginVars>>

\* A mutant: the sign-in is announced without dropping the cache.
SaveFinishNotifies(f) ==
    /\ f \in unfinished
    /\ unfinished' = unfinished \ {f}
    /\ UNCHANGED <<file, sourceVars, flowVars, disconnect, forgotten, latest,
                   doubtful, loginVars>>

\* Invalidate waits for the mutex; the notification follows.
SaveFinish(f) ==
    /\ f \in unfinished /\ holder = Nobody
    /\ loaded' = FALSE
    /\ unfinished' = unfinished \ {f}
    /\ UNCHANGED <<file, cred, holder, answer, flowVars, disconnect, forgotten,
                   latest, doubtful, loginVars>>

-----------------------------------------------------------------------------
(***************************************************************************)
(* DELETE /v1/controlplane/auth: the slot, the file, the cache.            *)
(***************************************************************************)
DisconnectClear ==
    /\ disconnect = "idle"
    /\ disconnect' = "removing"
    /\ Take(NoFlow)
    /\ UNCHANGED <<file, sourceVars, exchanging, started, unfinished,
                   forgotten, latest, doubtful, loginVars>>

DisconnectRemove ==
    /\ disconnect = "removing"
    /\ disconnect' = "invalidating"
    /\ file' = None
    /\ forgotten' = forgotten \cup ({file.grant} \ {NoFlow})
    /\ newest' = NoFlow /\ undone' = undone \ {NoFlow}
    /\ UNCHANGED <<sourceVars, flowVars, unfinished, latest, doubtful, panel,
                   overtaken>>

\* The file could not be removed: the request fails.
DisconnectFailed ==
    /\ disconnect = "removing"
    /\ disconnect' = "idle"
    /\ UNCHANGED <<file, sourceVars, flowVars, unfinished, forgotten, latest,
                   doubtful, loginVars>>

\* What a refresh stored since is there again, and this DELETE is answered.
Forgets == /\ disconnect' = "idle"
           /\ forgotten' = forgotten \ {file.grant}

\* A mutant: the credential stays cached.
DisconnectFinishCached ==
    /\ disconnect = "invalidating" /\ holder = Nobody
    /\ Forgets
    /\ UNCHANGED <<file, sourceVars, flowVars, unfinished, latest, doubtful,
                   loginVars>>

DisconnectFinish ==
    /\ disconnect = "invalidating" /\ holder = Nobody
    /\ Forgets
    /\ loaded' = FALSE
    /\ UNCHANGED <<file, cred, holder, answer, flowVars, unfinished, latest,
                   doubtful, loginVars>>

-----------------------------------------------------------------------------
(***************************************************************************)
(* The panel signs in when no credential can be loaded, with a listener of *)
(* its own, and stores the result without telling the token source.        *)
(***************************************************************************)
PanelBegin ==
    /\ ~panel /\ file = None
    /\ panel' = TRUE
    /\ UNCHANGED <<file, sourceVars, flowVars, adminVars, latest, doubtful,
                   overtaken, newest, undone>>

PanelStores(f) ==
    /\ panel /\ panel' = FALSE
    /\ BeginFlow(f) /\ spent' = spent \cup {f}
    /\ SaveOAuthCredential([grant |-> f, gen |-> 0])
    /\ overtaken' = IF file # None THEN overtaken \cup {f} ELSE overtaken
    /\ newest' = f
    /\ UNCHANGED <<sourceVars, flow, expired, exchanging, adminVars, latest,
                   doubtful, undone>>

\* Refused, a state that does not match, no code, or ten minutes without an
\* answer.
PanelGivesUp ==
    /\ panel /\ panel' = FALSE
    /\ UNCHANGED <<file, sourceVars, flowVars, adminVars, latest, doubtful,
                   overtaken, newest, undone>>

\* The process dies and starts again: only the file is left.
Restart ==
    /\ loaded' = FALSE /\ cred' = None /\ holder' = Nobody /\ answer' = "none"
    /\ flow' = NoFlow /\ expired' = FALSE /\ exchanging' = {}
    /\ unfinished' = {} /\ disconnect' = "idle"
    /\ spent' = started
    /\ doubtful' = IF answer = "rotated" THEN doubtful \cup {cred.grant}
                   ELSE doubtful
    /\ panel' = FALSE
    /\ forgotten' = IF disconnect = "invalidating" THEN forgotten \ {file.grant}
                    ELSE forgotten
    /\ UNCHANGED <<file, started, latest, overtaken, newest, undone>>

Token(c) == TokenCached(c) \/ RefreshSend(c) \/ RefreshOk(c) \/ RefreshFailed(c)

Next ==
    \/ \E c \in Callers : Token(c)
    \/ ServerRefresh \/ RefreshLost
    \/ \E f \in Flows : \/ StartFlow(f) \/ Callback(f)
                        \/ ExchangeOk(f) \/ ExchangeFailed(f) \/ SaveFinish(f)
    \/ FlowExpires \/ CallbackRejected
    \/ DisconnectClear \/ DisconnectRemove \/ DisconnectFailed
    \/ DisconnectFinish
    \/ PanelBegin \/ (\E f \in Flows : PanelStores(f)) \/ PanelGivesUp
    \/ Restart

Spec == Init /\ [][Next]_vars

-----------------------------------------------------------------------------
(***************************************************************************)
(* The refresh token in the file is one the control plane still honours,   *)
(* whatever calls, sign-ins and disconnects overlap, unless the answer     *)
(* that replaced it was lost, could not be saved or fell to a crash: the   *)
(* node is not locked out of its grant (Token, SaveOAuthCredential).       *)
(***************************************************************************)
StoredTokenLive ==
    file # None => \/ file.gen = latest[file.grant]
                   \/ file.grant \in doubtful
                   \/ holder # Nobody /\ cred = file /\ answer = "rotated"

(***************************************************************************)
(* Single-flight: no refresh token is presented again once the control     *)
(* plane has replaced it, outside the same exceptions.                     *)
(***************************************************************************)
NoTokenReuse ==
    holder # Nobody /\ answer = "none"
        => cred.gen = latest[cred.grant] \/ cred.grant \in doubtful

(***************************************************************************)
(* A sign-in or a disconnect takes effect without a restart                *)
(* (SaveControlPlaneCredential, DisconnectControlPlane): once the calls    *)
(* are over, the cache agrees with the file, unless it has a newer         *)
(* generation that could not be saved, and the file is of the last         *)
(* sign-in, or of none after a DELETE.  What they stored is undone when a  *)
(* refresh of the previous grant was already under way: it saves that      *)
(* grant over it before Invalidate gets the mutex.  A sign-in of the panel *)
(* over one that completed while it waited is not announced to the cache.  *)
(***************************************************************************)
CacheAgrees ==
    loaded /\ unfinished = {} /\ disconnect = "idle" /\ holder = Nobody
        => \/ newest \in overtaken
           \/ /\ \/ cred = file
                 \/ cred.grant = file.grant /\ cred.grant \in doubtful
              /\ file.grant = newest \/ newest \in undone

(***************************************************************************)
(* A flow is single-use: one that was exchanged, replaced, refused,        *)
(* cleared by a disconnect or is more than ten minutes old is never        *)
(* exchanged afterwards, also when its callback is repeated (take).        *)
(***************************************************************************)
FlowSingleUse ==
    [][\A f \in Flows : f \in exchanging' \ exchanging => f \notin spent]_vars

(***************************************************************************)
(* "Forget the stored grant" (DisconnectControlPlane): a grant that is not *)
(* in the file when the DELETE is answered does not come back, through the *)
(* cache, a refresh, a restart or the panel.  It can be in the file: a     *)
(* refresh that overlaps the DELETE stores it again after the removal.     *)
(***************************************************************************)
DisconnectForgets == disconnect # "invalidating" => file.grant \notin forgotten
=============================================================================
