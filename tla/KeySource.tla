----------------------------- MODULE KeySource -----------------------------
(***************************************************************************)
(* The assertion key cache (internal/pairing/jwks.go) and how a handshake  *)
(* uses it to find the key an assertion names (verify.go).                 *)
(*                                                                         *)
(* The cache is read and written under a mutex that is not held across the *)
(* fetch: one caller leads a fetch under the context of its own            *)
(* connection, the others wait for its answer.  A key set is the version   *)
(* the control plane publishes; 0 is no key set.  The two intervals of the *)
(* code, ten minutes of freshness and thirty seconds between refreshes for *)
(* an unknown kid, are flags that time resets.                             *)
(***************************************************************************)
EXTENDS Naturals

CONSTANTS Conns,        \* the connections handshakes run on
          Nobody,       \* not a connection
          Kids,         \* the kids assertions name; 0 is no key's
          MaxVersion    \* bound: the key sets the control plane publishes

ASSUME KeySourceAssumption ==
    /\ Nobody \notin Conns
    /\ MaxVersion \in Nat \ {0} /\ Kids \subseteq 0..MaxVersion

VARIABLES
    published,  \* the control plane's key set
    keys,       \* s.keys
    fresh,      \* fetchedAt is less than jwksCacheTTL ago
    limited,    \* lastAttempt is less than jwksMinRefresh ago
    inflight,   \* the caller that leads the fetch under way
    v,          \* the verification of each connection's handshake
    live,       \* connections whose context is not cancelled
    burst       \* history: fetches for an unknown kid since the limit began

keyVars == <<published, keys, fresh, limited, inflight, v, burst>>

\* A new key is published beside its predecessor, which goes with the next.
Holds(s, k) == k > 0 /\ (k = s \/ k + 1 = s)

\* cached is what Keys read first; sure is history: the kid was in the cache
\* at every moment since.
NoVerification == [at |-> "idle", kid |-> 0, why |-> "keys", cached |-> 0,
                   sure |-> FALSE]

Waiting == {"refresh", "wait", "fetch", "landed", "kid"}
Verdicts == {"ok", "unknown", "error"}

KeySourceTypeOK ==
    /\ published \in 1..MaxVersion /\ keys \in 0..published
    /\ fresh \in BOOLEAN /\ limited \in BOOLEAN
    /\ inflight \in Conns \cup {Nobody}
    /\ v \in [Conns -> [at: Waiting \cup Verdicts \cup {"idle"}, kid: Kids \cup {0},
                        why: {"keys", "kid"}, cached: 0..MaxVersion,
                        sure: BOOLEAN]]
    /\ live \subseteq Conns
    /\ burst \in Nat

KeySourceInit ==
    /\ published = 1 /\ keys = 0
    /\ fresh = FALSE /\ limited = FALSE
    /\ inflight = Nobody
    /\ v = [c \in Conns |-> NoVerification]
    /\ live = {}
    /\ burst = 0

-----------------------------------------------------------------------------
(***************************************************************************)
(* verify: the signing keys are loaded and the kid is looked up, with one  *)
(* forced refresh when it is not there.                                    *)
(***************************************************************************)
\* The verification is over: the key is found or not, or no set was to be had.
Verdict(at, r) == [NoVerification EXCEPT !.at = at, !.sure = r.sure /\ at # "ok"]

\* A mutant: Keys fails when its refresh does.
AnsweredFailClosed(r, s) ==
    IF Holds(s, r.kid) THEN Verdict("ok", r)
    ELSE IF r.why = "kid" THEN Verdict("unknown", r)
    ELSE IF s = 0 THEN Verdict("error", r)
    ELSE [r EXCEPT !.at = "kid", !.cached = 0]

\* refresh returned the set s, or 0 when it failed: Keys then serves what it
\* had before, KeysForKid serves nothing.
Answered(r, s) ==
    LET got == IF s = 0 /\ r.why = "keys" THEN r.cached ELSE s
    IN IF Holds(got, r.kid) THEN Verdict("ok", r)
       ELSE IF r.why = "kid" THEN Verdict("unknown", r)
       ELSE IF got = 0 THEN Verdict("error", r)
       ELSE [r EXCEPT !.at = "kid", !.cached = 0]

\* The part of Keys under the mutex: a fresh cache is the answer.
Keys(c, k) ==
    /\ v[c].at = "idle"
    /\ LET r == [NoVerification EXCEPT !.kid = k, !.sure = Holds(keys, k),
                                       !.cached = keys]
       IN v' = [v EXCEPT ![c] = IF keys # 0 /\ fresh THEN Answered(r, keys)
                                ELSE [r EXCEPT !.at = "refresh"]]
    /\ UNCHANGED <<published, keys, fresh, limited, inflight, live, burst>>

\* The kid is not in the cache: a refresh for it.
ForceRefresh(r) == [r EXCEPT !.at = "refresh", !.why = "kid"]

\* A mutant: nothing limits the refreshes for an unknown kid.
MissUnlimited(r) == ForceRefresh(r)

\* A refresh was tried a moment ago, or one is due.
Miss(r) == IF limited THEN Verdict("unknown", r) ELSE ForceRefresh(r)

\* The part of KeysForKid under the mutex: the kid may be in the cache by now.
KeysForKid(c) ==
    /\ v[c].at = "kid"
    /\ v' = [v EXCEPT ![c] = IF Holds(keys, v[c].kid) THEN Verdict("ok", v[c])
                             ELSE Miss(v[c])]
    /\ UNCHANGED <<published, keys, fresh, limited, inflight, live, burst>>

-----------------------------------------------------------------------------
(***************************************************************************)
(* refresh and fetch.                                                      *)
(***************************************************************************)
\* A mutant: everyone fetches.
LeadAlways(c) ==
    /\ v[c].at = "refresh"
    /\ inflight' = c /\ limited' = TRUE
    /\ burst' = IF v[c].why = "kid" THEN burst + 1 ELSE burst
    /\ v' = [v EXCEPT ![c].at = "fetch"]
    /\ UNCHANGED <<published, keys, fresh, live>>

\* Nobody fetches: this caller does.
Lead(c) ==
    /\ v[c].at = "refresh" /\ inflight = Nobody
    /\ inflight' = c /\ limited' = TRUE
    /\ burst' = IF v[c].why = "kid" THEN burst + 1 ELSE burst
    /\ v' = [v EXCEPT ![c].at = "fetch"]
    /\ UNCHANGED <<published, keys, fresh, live>>

Follow(c) ==
    /\ v[c].at = "refresh" /\ inflight # Nobody
    /\ v' = [v EXCEPT ![c].at = "wait"]
    /\ UNCHANGED <<published, keys, fresh, limited, inflight, live, burst>>

\* The control plane answers with what it publishes at this moment.
Respond(c) ==
    /\ v[c].at = "fetch" /\ c \in live
    /\ v' = [v EXCEPT ![c].at = "landed", ![c].cached = published]
    /\ UNCHANGED <<published, keys, fresh, limited, inflight, live, burst>>

\* A mutant: followers are only told of a success.
ToldOfSuccess(d, c, s) == d = c \/ (v[d].at = "wait" /\ s # 0)

\* The leader's answer is everybody's: closing done is one step with storing
\* the keys. A follower that runs late is one whose next step comes late, and
\* one that is cancelled before it looks is one that bailed just before.
Told(d, c, s) == d = c \/ v[d].at = "wait"

\* The leader is done, with the set s or with an error.
Store(c, s) ==
    /\ keys' = IF s = 0 THEN keys ELSE s
    /\ fresh' = (fresh \/ s # 0)
    /\ inflight' = Nobody
    /\ v' = [d \in Conns |->
                LET r == [v[d] EXCEPT !.sure = @ /\ Holds(keys', v[d].kid)]
                IN IF Told(d, c, s) THEN Answered(r, s) ELSE r]
    /\ UNCHANGED <<published, limited, live, burst>>

FetchOK(c) == v[c].at = "landed" /\ Store(c, v[c].cached)

\* Refused, unreachable, unparsable, timed out, or the leader's own context
\* is cancelled.
FetchFails(c) == v[c].at = "fetch" /\ Store(c, 0)

\* A follower's own context is cancelled.
Bail(c) ==
    /\ v[c].at = "wait" /\ c \notin live
    /\ v' = [v EXCEPT ![c] = Answered(@, 0)]
    /\ UNCHANGED <<published, keys, fresh, limited, inflight, live, burst>>

\* What a verification does once it has begun.
Verifies(c) ==
    \/ KeysForKid(c) \/ Lead(c) \/ Follow(c) \/ Respond(c) \/ FetchOK(c)
    \/ FetchFails(c) \/ Bail(c)

-----------------------------------------------------------------------------
(***************************************************************************)
(* Time, and the control plane.                                            *)
(***************************************************************************)
CacheExpires ==
    /\ fresh /\ fresh' = FALSE
    /\ UNCHANGED <<published, keys, limited, inflight, v, live, burst>>

LimitEnds ==
    /\ limited /\ limited' = FALSE /\ burst' = 0
    /\ UNCHANGED <<published, keys, fresh, inflight, v, live>>

Rotate ==
    /\ published < MaxVersion /\ published' = published + 1
    /\ UNCHANGED <<keys, fresh, limited, inflight, v, live, burst>>

Elapses == CacheExpires \/ LimitEnds \/ Rotate
=============================================================================
