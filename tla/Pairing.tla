------------------------------- MODULE Pairing -------------------------------
(***************************************************************************)
(* Automated device pairing over the LAN WebSocket: the handshake          *)
(* responder (internal/pairing/handshake.go), its wiring into a connection *)
(* (internal/lanserve/pairing.go), the choice of key and the inference     *)
(* gate of the router (router.go), and the operator's confirmation through *)
(* the admin API.                                                          *)
(*                                                                         *)
(* A connection is served by one read loop, so what it keeps in Session is *)
(* private to it; connections and the operator meet in the pin store and   *)
(* in the pending list, which have a lock each, and a handler that uses    *)
(* both takes them one after the other.  Keys, nonces, MACs and signatures *)
(* are abstracted to whether they check.                                   *)
(***************************************************************************)
EXTENDS Naturals, FiniteSets, PinStore

CONSTANTS Conns,      \* WebSocket connections that can be open at once
          NoAccount,  \* "": the node has not registered yet
          NoApp,      \* no identity proved yet
          MaxBoots    \* bound: how often the process is started again

ASSUME PairingAssumption ==
    /\ NoAccount \notin Accounts
    /\ NoApp \notin Apps
    /\ MaxBoots \in Nat

VARIABLES
    sess,           \* the Session and its Responder, per connection
    generating,     \* the keys the running generations of a connection use
    pending,        \* Pairer.pending, per account
    clearing,       \* admin Verify calls that still have to clear pending
    requireVerify,  \* lan.require_pairing_verification when the node started
    account,        \* the account the last registration reported
    fileKey,        \* <data_dir>/pairing.key holds a key
    boots,
    confirmed       \* history: the keys the operator confirmed

pairVars == <<sess, generating, pending, clearing, requireVerify, account,
              fileKey, boots, confirmed>>
vars == <<pairVars, pinVars>>

\* Where the read loop is: nothing connected, reading a frame, checking an
\* assertion, or about to list an unverified pairing.
Phases == {"closed", "reading", "verifying", "recording"}

SessionFields ==
    [at: Phases,
     started: BOOLEAN,               \* pairStarted
     responder: {"none", "new", "hello", "done"},
     own: Accounts \cup {NoAccount}, \* the account its verifier is bound to
     app: Apps \cup {NoApp},         \* the identity key proved by Hello
     keyed: BOOLEAN,                 \* sessionKey set
     changed: BOOLEAN,               \* it was told: safety number changed
     verified: BOOLEAN,              \* pairVerified
     greeted: BOOLEAN]               \* (history) a pair_hello arrived on it

\* An account and an identity are known once a Hello was accepted, and a
\* session key once the handshake is done.
Session ==
    {s \in SessionFields :
        /\ s.responder \in {"hello", "done"} => s.own \in Accounts /\ s.app \in Apps
        /\ s.keyed => s.responder = "done"
        /\ s.verified => s.keyed
        /\ s.at = "verifying" => s.responder = "new"
        /\ s.at = "recording" => s.keyed}

NewSession ==
    [at |-> "reading", started |-> FALSE, responder |-> "none",
     own |-> NoAccount, app |-> NoApp, keyed |-> FALSE, changed |-> FALSE,
     verified |-> FALSE, greeted |-> FALSE]

PerAccount == [Accounts -> SUBSET Apps]
Nothing    == [a \in Accounts |-> {}]
Add(f, a, p)    == [f EXCEPT ![a] = @ \cup {p}]
Remove(f, a, p) == [f EXCEPT ![a] = @ \ {p}]

TypeOK ==
    /\ PinTypeOK
    /\ sess \in [Conns -> Session]
    /\ generating \in [Conns -> SUBSET {"file", "session"}]
    /\ pending \in PerAccount /\ clearing \in PerAccount
    /\ requireVerify \in BOOLEAN
    /\ account \in Accounts \cup {NoAccount}
    /\ fileKey \in BOOLEAN
    /\ boots \in 0..MaxBoots
    /\ confirmed \in PerAccount

Init ==
    /\ PinInit
    /\ sess = [c \in Conns |-> [NewSession EXCEPT !.at = "closed"]]
    /\ generating = [c \in Conns |-> {}]
    /\ pending = Nothing /\ clearing = Nothing
    /\ requireVerify \in BOOLEAN
    /\ account = NoAccount
    /\ fileKey = FALSE
    /\ boots = 0
    /\ confirmed = Nothing

-----------------------------------------------------------------------------
(***************************************************************************)
(* A connection's read loop, one frame at a time.                          *)
(***************************************************************************)
Only(c, s) ==
    /\ sess' = [sess EXCEPT ![c] = s]
    /\ UNCHANGED <<clearing, requireVerify, account, fileKey, boots, confirmed>>

Connect(c) ==
    /\ sess[c].at = "closed" /\ generating[c] = {}
    /\ Only(c, NewSession)
    /\ UNCHANGED <<generating, pending, pinVars>>

Disconnect(c) ==
    /\ sess[c].at = "reading"
    /\ Only(c, [sess[c] EXCEPT !.at = "closed"])
    /\ UNCHANGED <<generating, pending, pinVars>>

\* A mutant: the hello does not make the connection handshake-only.
HelloBeginUnlatched(c) ==
    /\ sess[c].at = "reading" /\ sess[c].responder \in {"none", "new"}
    /\ Only(c, [sess[c] EXCEPT
                  !.at = "verifying", !.responder = "new", !.greeted = TRUE,
                  !.own = IF sess[c].responder = "none" THEN account ELSE @])
    /\ UNCHANGED <<generating, pending, pinVars>>

\* handleHello up to the verifier: the first pair_hello makes the responder,
\* bound to the account registered at that moment.
HelloBegin(c) ==
    /\ sess[c].at = "reading" /\ sess[c].responder \in {"none", "new"}
    /\ Only(c, [sess[c] EXCEPT
                  !.at = "verifying", !.started = TRUE, !.responder = "new",
                  !.greeted = TRUE,
                  !.own = IF sess[c].responder = "none" THEN account ELSE @])
    /\ UNCHANGED <<generating, pending, pinVars>>

\* Responder.Hello: the assertion is for this node, its account and the key
\* presented, and the transcript is agreed. The control plane issues no
\* assertion without an account, so none matches a node that has none.
HelloAccepted(c, p) ==
    /\ sess[c].at = "verifying" /\ sess[c].own # NoAccount
    /\ Only(c, [sess[c] EXCEPT !.at = "reading", !.responder = "hello", !.app = p])
    /\ UNCHANGED <<generating, pending, pinVars>>

\* Any check fails: pair_error, and the client may send another pair_hello.
HelloRejected(c) ==
    /\ sess[c].at = "verifying"
    /\ Only(c, [sess[c] EXCEPT !.at = "reading"])
    /\ UNCHANGED <<generating, pending, pinVars>>

\* handleConfirm, once the app's MAC checks: the responder is done whatever
\* the pin store says.
Confirming(c) ==
    /\ sess[c].at = "reading" /\ sess[c].responder = "hello"
    /\ UNCHANGED <<generating, pending>>

\* Observe fails: the safety number changed, or the first contact could not
\* be saved.
ConfirmRefused(c) ==
    /\ Confirming(c)
    /\ LET a == sess[c].own  p == sess[c].app IN
       /\ \/ SafetyNumberChanged(a, p) /\ UNCHANGED pinVars
          \/ Observe(a, p, FALSE)
       /\ Only(c, [sess[c] EXCEPT !.responder = "done",
                                  !.changed = SafetyNumberChanged(a, p)])

\* A mutant: only a first contact is listed.
ConfirmPinnedListsFirst(c) ==
    /\ Confirming(c)
    /\ LET a == sess[c].own  p == sess[c].app
           verified == IsVerified(a, p) \/ ~requireVerify
       IN /\ \/ devices[a][p] # "none" /\ UNCHANGED pinVars
             \/ Observe(a, p, TRUE)
          /\ Only(c, [sess[c] EXCEPT
                        !.responder = "done", !.keyed = TRUE, !.verified = verified,
                        !.at = IF verified \/ devices[a][p] # "none" THEN "reading"
                               ELSE "recording"])

\* The session key is set; an unverified pairing is listed next.
ConfirmPinned(c) ==
    /\ Confirming(c)
    /\ LET a == sess[c].own  p == sess[c].app
           verified == IsVerified(a, p) \/ ~requireVerify
       IN /\ \/ devices[a][p] # "none" /\ UNCHANGED pinVars
             \/ Observe(a, p, TRUE)
          /\ Only(c, [sess[c] EXCEPT
                        !.responder = "done", !.keyed = TRUE, !.verified = verified,
                        !.at = IF verified THEN "reading" ELSE "recording"])

recordPending(c) ==
    /\ sess[c].at = "recording"
    /\ pending' = Add(pending, sess[c].own, sess[c].app)
    /\ Only(c, [sess[c] EXCEPT !.at = "reading"])
    /\ UNCHANGED <<generating, pinVars>>

-----------------------------------------------------------------------------
(***************************************************************************)
(* An encrypted user_message, under the key Handle selects.                *)
(***************************************************************************)
\* No session key and no handshake begun.
UsesFileKey(c) == ~sess[c].keyed /\ ~sess[c].started

\* Two mutants: any session that has a key passes; the pin store is not
\* looked at again after the handshake.
AllowedWhenKeyed(c) == sess[c].keyed
AllowedAtHandshake(c) == sess[c].verified

\* sessionInferenceAllowed, for a handshake session: verified, or confirmed
\* in the pin store since.
sessionInferenceAllowed(c) ==
    sess[c].verified \/ IsVerified(sess[c].own, sess[c].app)

Generate(c, key) ==
    /\ key \notin generating[c]
    /\ generating' = [generating EXCEPT ![c] = @ \cup {key}]
    /\ UNCHANGED <<pending, pinVars>>

FileMessage(c) ==
    /\ sess[c].at = "reading"
    /\ UsesFileKey(c) /\ fileKey
    /\ Generate(c, "file")
    /\ Only(c, sess[c])

SessionMessage(c) ==
    /\ sess[c].at = "reading" /\ sess[c].keyed
    /\ sessionInferenceAllowed(c)
    /\ Generate(c, "session")
    /\ Only(c, [sess[c] EXCEPT !.verified = TRUE])

\* The stream ends, is interrupted, or its connection is gone.
GenerationEnds(c, key) ==
    /\ key \in generating[c]
    /\ generating' = [generating EXCEPT ![c] = @ \ {key}]
    /\ UNCHANGED <<sess, clearing, requireVerify, account, fileKey, boots,
                   confirmed, pending, pinVars>>

-----------------------------------------------------------------------------
(***************************************************************************)
(* The operator and the rest of the node.                                  *)
(***************************************************************************)
\* Pairer.Verify: the pin store first; when its write fails the call ends
\* with the error, and the key is verified in memory all the same.
Verify(a, p) ==
    /\ \E saved \in BOOLEAN :
         /\ PinVerify(a, p, saved)
         /\ clearing' = IF saved THEN Add(clearing, a, p) ELSE clearing
    /\ confirmed' = Add(confirmed, a, p)
    /\ UNCHANGED <<sess, generating, pending, requireVerify, account, fileKey,
                   boots>>

clearPending(a, p) ==
    /\ p \in clearing[a]
    /\ clearing' = Remove(clearing, a, p)
    /\ pending' = Remove(pending, a, p)
    /\ UNCHANGED <<sess, generating, requireVerify, account, fileKey, boots,
                   confirmed, pinVars>>

\* POST /v1/auth/pairing-key.
SetPairingKey ==
    /\ ~fileKey /\ fileKey' = TRUE
    /\ UNCHANGED <<sess, generating, pending, clearing, requireVerify, account,
                   boots, confirmed, pinVars>>

\* A registration's answer names the account (Manager.Identity).
Registered(a) ==
    /\ account # a /\ account' = a
    /\ UNCHANGED <<sess, generating, pending, clearing, requireVerify, fileKey,
                   boots, confirmed, pinVars>>

\* The process dies and is started again: what is not in the data directory
\* is gone, and the configuration may have changed.
Restart ==
    /\ boots < MaxBoots /\ boots' = boots + 1
    /\ LoadPinStore
    /\ sess' = [c \in Conns |-> [NewSession EXCEPT !.at = "closed"]]
    /\ generating' = [c \in Conns |-> {}]
    /\ pending' = Nothing /\ clearing' = Nothing
    /\ requireVerify' \in BOOLEAN
    /\ account' = NoAccount
    /\ UNCHANGED <<fileKey, confirmed>>

ReadLoop(c) ==
    \/ Connect(c) \/ Disconnect(c)
    \/ HelloBegin(c) \/ (\E p \in Apps : HelloAccepted(c, p)) \/ HelloRejected(c)
    \/ ConfirmRefused(c) \/ ConfirmPinned(c) \/ recordPending(c)
    \/ FileMessage(c) \/ SessionMessage(c)

Next ==
    \/ \E c \in Conns : ReadLoop(c)
    \/ \E c \in Conns, key \in {"file", "session"} : GenerationEnds(c, key)
    \/ \E a \in Accounts, p \in Apps : Verify(a, p) \/ clearPending(a, p)
    \/ SetPairingKey
    \/ \E a \in Accounts : Registered(a)
    \/ Restart

Spec == Init /\ [][Next]_vars

\* The app keeps sending what it was refused, and its read loop runs.
FairSpec == Spec /\ \A c \in Conns : WF_vars(SessionMessage(c))

-----------------------------------------------------------------------------
(***************************************************************************)
(* No inference runs for an app whose identity key the operator has not    *)
(* confirmed, when verification is required: not through a stale flag, an  *)
(* evicted or re-recorded key, a failed save or a restart                  *)
(* (sessionInferenceAllowed).                                              *)
(***************************************************************************)
ConfirmedInference ==
    \A c \in Conns :
        requireVerify /\ "session" \in generating[c]
            => sess[c].app \in confirmed[sess[c].own]

(***************************************************************************)
(* One identity per account, in memory and in the file: an unconfirmed key *)
(* gives way to the next one, and a confirmed key is never joined by       *)
(* another (Observe).                                                      *)
(***************************************************************************)
OneKeyPerAccount ==
    \A a \in Accounts, p, q \in Apps :
        /\ devices[a][p] # "none" /\ devices[a][q] # "none" => p = q
        /\ devicesDisk[a][p] # "none" /\ devicesDisk[a][q] # "none" => p = q

(***************************************************************************)
(* A confirmation that reached the file is for good: no handshake, later   *)
(* save or restart takes it back.                                          *)
(***************************************************************************)
ConfirmationKept ==
    [][\A a \in Accounts, p \in Apps :
         devicesDisk[a][p] = "verified"
             => devicesDisk'[a][p] = "verified" /\ devices'[a][p] = "verified"]_vars

(***************************************************************************)
(* Once a pair_hello arrived on a connection, whatever became of the       *)
(* handshake, no generation starts there under the shared pairing.key      *)
(* (Session: it can never downgrade).                                      *)
(***************************************************************************)
NoDowngrade ==
    [][\A c \in Conns :
         sess[c].greeted /\ "file" \in generating'[c] => "file" \in generating[c]]_vars

(***************************************************************************)
(* An app that waits with a session key, and whose key the store holds as  *)
(* unverified, is in the list the operator confirms from (handleConfirm).  *)
(***************************************************************************)
AwaitingListed ==
    \A c \in Conns :
        LET s == sess[c] IN
        s.at = "reading" /\ s.keyed /\ ~s.verified /\ devices[s.own][s.app] = "unverified"
            => s.app \in pending[s.own]

(***************************************************************************)
(* A confirmation that lands after the handshake is picked up on the open  *)
(* connection, without reconnecting (sessionInferenceAllowed).             *)
(***************************************************************************)
ConfirmationPickedUp ==
    \A c \in Conns :
        (/\ sess[c].at = "reading" /\ sess[c].keyed
         /\ devices[sess[c].own][sess[c].app] = "verified")
            ~> (sess[c].at # "reading" \/ "session" \in generating[c])

(***************************************************************************)
(* "The operator must re-verify the new key with Verify, which then        *)
(* supersedes the old one" (Observe): a key that was refused because the   *)
(* safety number changed is one Verify can confirm.                        *)
(***************************************************************************)
ChangedCanBeReverified ==
    \A c \in Conns : sess[c].changed => devices[sess[c].own][sess[c].app] # "none"
=============================================================================
