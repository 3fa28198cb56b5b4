-------------------------- MODULE LanServerProofs --------------------------
(***************************************************************************)
(* Proofs about LanServer and the key cache it shares, for every set of    *)
(* connections, kids and generations and any number of slots, servers and  *)
(* key sets.                                                               *)
(***************************************************************************)
EXTENDS LanServer, FiniteSetTheorems, TLAPS

-----------------------------------------------------------------------------
(***************************************************************************)
(* The inductive invariants.                                               *)
(***************************************************************************)
\* A handler belongs to a server that was started, and only one that handles
\* a frame verifies.
HandlerInv ==
    /\ up => inc > 0
    /\ \A c \in Conns : /\ conn[c].at = "off" => conn[c].on = 0
                        /\ conn[c].at # "off" => conn[c].on \in Servers
                        /\ v[c].at # "idle" => conn[c].at = "busy"

\* The handlers that count at a server, and those it admitted.
Held(i) == {c \in Conns : conn[c].on = i /\ conn[c].at \in Handling}
Admitted(i) == {c \in Conns : conn[c].on = i /\ conn[c].at \in Handling \ {"over"}}

SlotInv ==
    \A i \in Servers : /\ clients[i] = Cardinality(Held(i))
                       /\ Cardinality(Admitted(i)) <= maxClients

\* A context that is not cancelled is that of an open connection of the server
\* that is up, a generation's is derived from one, and a connection's latest
\* generation is the one its session tracks.
ContextInv ==
    /\ \A c \in live : up /\ conn[c].on = inc /\ conn[c].at \in {"open", "busy"}
    /\ \A g \in Gens : gen[g].conn # Nobody =>
           /\ gen[g].conn \in live /\ ~gen[g].told
           /\ gen[g].last => conn[gen[g].conn].tracked = g

\* Who leads a fetch is known, and has an answer no older than the cache.
LeadInv ==
    \A c \in Conns :
        /\ v[c].at \in {"fetch", "landed"} => inflight = c
        /\ v[c].at = "landed" => v[c].cached \in 1..published /\ keys <= v[c].cached

\* While the kid is sure to be in the cache nobody has looked for it in vain,
\* and what Keys read before its refresh has it, too.
KidInv ==
    \A c \in Conns : v[c].sure =>
        /\ Holds(keys, v[c].kid) /\ v[c].why = "keys"
        /\ v[c].at \in {"refresh", "wait", "fetch", "landed"}
        /\ v[c].at # "landed" => Holds(v[c].cached, v[c].kid)

\* Those past the check, and not yet counted.
Forced == {c \in Conns : v[c].at = "refresh" /\ v[c].why = "kid"}

StormInv ==
    /\ ~limited => burst = 0
    /\ limited => burst + Cardinality(Forced) <= Cardinality(Conns)

-----------------------------------------------------------------------------
(***************************************************************************)
(* Helpers.                                                                *)
(***************************************************************************)
\* What a verification is.
Verifications == [at: Waiting \cup Verdicts \cup {"idle"}, kid: Kids \cup {0},
                  why: {"keys", "kid"}, cached: 0..MaxVersion, sure: BOOLEAN]

LEMMA VerificationType ==
    ASSUME KeySourceTypeOK PROVE v \in [Conns -> Verifications]
  BY DEF KeySourceTypeOK, Verifications

LEMMA NoVerificationType ==
    /\ NoVerification \in Verifications
    /\ NoVerification.at = "idle" /\ NoVerification.why = "keys"
    /\ NoVerification.sure = FALSE
  BY KeySourceAssumption DEF NoVerification, Verifications, Waiting, Verdicts

\* Records that differ in some fields.
LEMMA StillVerifies ==
    ASSUME NEW r \in Verifications, NEW at \in Waiting, NEW n \in 0..MaxVersion
    PROVE  /\ [r EXCEPT !.at = at, !.cached = n] \in Verifications
           /\ [r EXCEPT !.at = at, !.cached = n].at = at
           /\ [r EXCEPT !.at = at, !.cached = n].sure = r.sure
  BY DEF Verifications

LEMMA Begins ==
    ASSUME NEW k \in Kids, NEW b \in BOOLEAN, NEW n \in 0..MaxVersion
    PROVE  [NoVerification EXCEPT !.kid = k, !.sure = b, !.cached = n]
               \in Verifications
<1>1. 0 \in 0..MaxVersion
  BY KeySourceAssumption
<1> QED
  BY <1>1 DEF NoVerification, Verifications

LEMMA Ends ==
    ASSUME NEW at \in Verdicts, NEW b \in BOOLEAN
    PROVE  /\ [NoVerification EXCEPT !.at = at, !.sure = b] \in Verifications
           /\ [NoVerification EXCEPT !.at = at, !.sure = b].at = at
           /\ [NoVerification EXCEPT !.at = at, !.sure = b].why = "keys"
           /\ [NoVerification EXCEPT !.at = at, !.sure = b].sure = b
<1>1. 0 \in 0..MaxVersion
  BY KeySourceAssumption
<1>2. [NoVerification EXCEPT !.at = at, !.sure = b] \in Verifications
  BY <1>1 DEF NoVerification, Verifications
<1> QED
  BY <1>2 DEF NoVerification

\* The end of a verification.
LEMMA VerdictFields ==
    ASSUME NEW at \in Verdicts, NEW r \in Verifications
    PROVE  /\ Verdict(at, r) \in Verifications
           /\ Verdict(at, r).at = at /\ Verdict(at, r).why = "keys"
           /\ Verdict(at, r).sure => r.sure /\ at # "ok"
<1>1. (r.sure /\ at # "ok") \in BOOLEAN
  OBVIOUS
<1>2. /\ Verdict(at, r) \in Verifications
      /\ Verdict(at, r).at = at /\ Verdict(at, r).why = "keys"
      /\ Verdict(at, r).sure = (r.sure /\ at # "ok")
  BY <1>1, Ends, ZenonT(60) DEF Verdict
<1> QED
  BY <1>2

\* What becomes of a verification when refresh returns: it ends, or goes on to
\* KeysForKid; its kid stays sure only when it was not in the set it got.
LEMMA AnsweredFields ==
    ASSUME NEW r \in Verifications, NEW s
    PROVE  /\ Answered(r, s) \in Verifications
           /\ Answered(r, s).at \in Verdicts \cup {"kid"}
           /\ Answered(r, s).sure =>
                 /\ r.sure
                 /\ s # 0 => ~Holds(s, r.kid)
                 /\ s = 0 /\ r.why = "keys" => ~Holds(r.cached, r.kid)
<1> DEFINE got == IF s = 0 /\ r.why = "keys" THEN r.cached ELSE s
           next == [r EXCEPT !.at = "kid", !.cached = 0]
<1>1. "ok" \in Verdicts /\ "unknown" \in Verdicts /\ "error" \in Verdicts
  BY DEF Verdicts
<1>2. CASE Holds(got, r.kid)
  <2>1. Answered(r, s) = Verdict("ok", r)
    BY <1>2 DEF Answered
  <2>2. Answered(r, s) \in Verifications /\ Answered(r, s).at \in Verdicts
    BY <1>1, <2>1, VerdictFields
  <2>3. Answered(r, s).sure => r.sure /\ FALSE
    BY <1>1, <2>1, VerdictFields
  <2> QED
    BY <1>2, <2>2, <2>3
<1>3. CASE ~Holds(got, r.kid) /\ r.why = "kid"
  <2>1. Answered(r, s) = Verdict("unknown", r)
    BY <1>3 DEF Answered
  <2>2. Answered(r, s) \in Verifications /\ Answered(r, s).at \in Verdicts
    BY <1>1, <2>1, VerdictFields
  <2>3. Answered(r, s).sure => r.sure
    BY <1>1, <2>1, VerdictFields
  <2> QED
    BY <1>3, <2>2, <2>3
<1>4. CASE ~Holds(got, r.kid) /\ r.why # "kid" /\ got = 0
  <2>1. Answered(r, s) = Verdict("error", r)
    BY <1>4 DEF Answered
  <2>2. Answered(r, s) \in Verifications /\ Answered(r, s).at \in Verdicts
    BY <1>1, <2>1, VerdictFields
  <2>3. Answered(r, s).sure => r.sure
    BY <1>1, <2>1, VerdictFields
  <2> QED
    BY <1>4, <2>2, <2>3
<1>5. CASE ~Holds(got, r.kid) /\ r.why # "kid" /\ got # 0
  <2>1. Answered(r, s) = next
    BY <1>5 DEF Answered
  <2>2. "kid" \in Waiting /\ 0 \in 0..MaxVersion
    BY KeySourceAssumption DEF Waiting
  <2>3. next \in Verifications
    BY <2>2, StillVerifies
  <2>4. next.at = "kid" /\ next.sure = r.sure
    BY DEF Verifications
  <2> QED
    BY <1>5, <2>1, <2>3, <2>4
<1> QED
  BY <1>2, <1>3, <1>4, <1>5

\* The leader's answer, as each verification sees it.
LEMMA StoreFields ==
    ASSUME KeySourceTypeOK, NEW c \in Conns, NEW s, Store(c, s), NEW d \in Conns
    PROVE  /\ v' \in [Conns -> Verifications]
           /\ v'[d].sure => v[d].sure /\ Holds(keys', v[d].kid)
           /\ Told(d, c, s) =>
                 /\ v'[d].at \in Verdicts \cup {"kid"}
                 /\ v'[d].sure =>
                       /\ s # 0 => ~Holds(s, v[d].kid)
                       /\ s = 0 /\ v[d].why = "keys"
                             => ~Holds(v[d].cached, v[d].kid)
           /\ ~Told(d, c, s) =>
                 /\ v'[d].at = v[d].at /\ v'[d].why = v[d].why
                 /\ v'[d].kid = v[d].kid /\ v'[d].cached = v[d].cached
<1> DEFINE R(e) == [v[e] EXCEPT !.sure = v[e].sure /\ Holds(keys', v[e].kid)]
<1>1. \A e \in Conns : /\ R(e) \in Verifications
                       /\ R(e).at = v[e].at /\ R(e).why = v[e].why
                       /\ R(e).kid = v[e].kid /\ R(e).cached = v[e].cached
                       /\ R(e).sure = (v[e].sure /\ Holds(keys', v[e].kid))
  BY VerificationType DEF Verifications, Holds
<1>2. v' = [e \in Conns |-> IF Told(e, c, s) THEN Answered(R(e), s) ELSE R(e)]
  BY DEF Store
<1> HIDE DEF R
<1>3. \A e \in Conns : Answered(R(e), s) \in Verifications
  BY <1>1, AnsweredFields
<1>4. v' \in [Conns -> Verifications]
  BY <1>1, <1>2, <1>3
<1>5. CASE Told(d, c, s)
  <2>1. v'[d] = Answered(R(d), s)
    BY <1>2, <1>5
  <2>2. /\ v'[d].at \in Verdicts \cup {"kid"}
        /\ v'[d].sure => /\ R(d).sure
                         /\ s # 0 => ~Holds(s, R(d).kid)
                         /\ s = 0 /\ R(d).why = "keys"
                               => ~Holds(R(d).cached, R(d).kid)
    BY <1>1, <2>1, AnsweredFields
  <2> QED
    BY <1>1, <1>4, <1>5, <2>2
<1>6. CASE ~Told(d, c, s)
  <2>1. v'[d] = R(d)
    BY <1>2, <1>6
  <2> QED
    BY <1>1, <1>4, <1>6, <2>1
<1> QED
  BY <1>5, <1>6

\* A counted handler's server has a counter, which it has raised.
LEMMA CountHeld ==
    ASSUME TypeOK, HandlerInv, SlotInv, NEW c \in Conns, conn[c].at # "off"
    PROVE  conn[c].on \in Servers /\ Count(c) \in Nat \ {0}
<1>1. conn[c].on \in Servers /\ c \in Held(conn[c].on)
  BY DEF HandlerInv, Held, TypeOK
<1>2. IsFiniteSet(Held(conn[c].on))
  BY LanServerAssumption, FS_Subset DEF Held
<1>3. Cardinality(Held(conn[c].on)) \in Nat \ {0}
  BY <1>1, <1>2, FS_CardinalityType, FS_EmptySet
<1> QED
  BY <1>1, <1>3 DEF SlotInv, Count

-----------------------------------------------------------------------------
(***************************************************************************)
(* Types and handlers.                                                     *)
(***************************************************************************)
\* What a handler and a generation are.
Handlers == [at: Handling \cup {"off"}, on: 0..MaxStarts,
             tracked: Gens \cup {NoGen}]
Generations == [conn: Conns \cup {Nobody}, last: BOOLEAN, told: BOOLEAN]

LEMMA TypeParts ==
    TypeOK <=> /\ KeySourceTypeOK
               /\ up \in BOOLEAN /\ inc \in 0..MaxStarts
               /\ clients \in [Servers -> Nat]
               /\ conn \in [Conns -> Handlers] /\ gen \in [Gens -> Generations]
  BY DEF TypeOK, Handlers, Generations

\* Generations that end, and those that do not.
LEMMA GenerationUpdates ==
    /\ FreeGen \in Generations
    /\ \A c \in Conns : Begin(c) \in Generations
    /\ \A r \in Generations, b \in BOOLEAN :
           /\ [r EXCEPT !.last = b] \in Generations
           /\ [r EXCEPT !.told = b] \in Generations
  BY DEF Generations, FreeGen, Begin

LEMMA HandlerUpdates ==
    /\ NoConn \in Handlers
    /\ \A r \in Handlers : [r EXCEPT !.tracked = NoGen] \in Handlers
  BY LanServerAssumption DEF Handlers, NoConn

LEMMA TypeStep ==
    TypeOK /\ HandlerInv /\ SlotInv /\ LeadInv /\ [Next]_vars => TypeOK'
<1> SUFFICES ASSUME TypeOK, HandlerInv, SlotInv, LeadInv, [Next]_vars
             PROVE  TypeOK'
  OBVIOUS
<1>1. CASE Start
  BY KeySourceAssumption, LanServerAssumption, <1>1 DEF Start, TypeOK,
       KeySourceTypeOK, NoConn, FreeGen, Handling, Servers, serverVars,
       keyVars
<1>2. CASE Stop
  <2>1. gen' \in [Gens -> Generations]
    BY <1>2, TypeParts, GenerationUpdates DEF Stop, Over
  <2>2. conn' \in [Conns -> Handlers]
    BY <1>2, TypeParts, HandlerUpdates DEF Stop, Untrack
  <2> QED
    BY <1>2, <2>1, <2>2, TypeParts
      DEF Stop, keyVars, KeySourceTypeOK, TypeOK, Handlers, Generations
<1>3. ASSUME NEW c \in Conns, Reserve(c) PROVE TypeOK'
  <2>1. inc \in Servers
    BY <1>3, TypeParts DEF Reserve, HandlerInv, Servers
  <2>2. clients' \in [Servers -> Nat]
    BY <1>3, <2>1, TypeParts DEF Reserve
  <2>3. conn' \in [Conns -> Handlers]
    BY <1>3, TypeParts DEF Reserve, Handlers, Handling
  <2> QED
    BY <1>3, <2>2, <2>3, TypeParts
      DEF Reserve, keyVars, KeySourceTypeOK, TypeOK, Handlers, Generations
<1>4. ASSUME NEW c \in Conns, Refuse(c) PROVE TypeOK'
  <2>1. conn[c].on \in Servers /\ Count(c) \in Nat \ {0}
    BY <1>4, CountHeld DEF Refuse
  <2>2. clients' \in [Servers -> Nat]
    BY <1>4, <2>1, TypeParts DEF Refuse, Counts
  <2>3. conn' \in [Conns -> Handlers]
    BY <1>4, TypeParts, HandlerUpdates DEF Refuse
  <2> QED
    BY <1>4, <2>2, <2>3, TypeParts
      DEF Refuse, keyVars, KeySourceTypeOK, TypeOK, Handlers, Generations
<1>5. ASSUME NEW c \in Conns, AcceptFails(c) PROVE TypeOK'
  <2>1. conn[c].on \in Servers /\ Count(c) \in Nat \ {0}
    BY <1>5, CountHeld DEF AcceptFails
  <2>2. clients' \in [Servers -> Nat]
    BY <1>5, <2>1, TypeParts DEF AcceptFails, Counts
  <2>3. conn' \in [Conns -> Handlers]
    BY <1>5, TypeParts, HandlerUpdates DEF AcceptFails
  <2> QED
    BY <1>5, <2>2, <2>3, TypeParts
      DEF AcceptFails, keyVars, KeySourceTypeOK, TypeOK, Handlers, Generations
<1>6. ASSUME NEW c \in Conns, Accept(c) PROVE TypeOK'
  BY KeySourceAssumption, LanServerAssumption, <1>6, ZenonT(60) DEF Accept,
       Moves, TypeOK,
       KeySourceTypeOK, NoConn, FreeGen, Handling, Servers, serverVars,
       keyVars
<1>7. ASSUME NEW c \in Conns, Read(c) PROVE TypeOK'
  BY KeySourceAssumption, LanServerAssumption, <1>7, ZenonT(60) DEF Read,
       Moves, TypeOK,
       KeySourceTypeOK, NoConn, FreeGen, Handling, Servers, serverVars,
       keyVars
<1>8. ASSUME NEW c \in Conns, Leave(c) PROVE TypeOK'
  <2>1. conn[c].on \in Servers /\ Count(c) \in Nat \ {0}
    BY <1>8, CountHeld DEF Leave
  <2>2. clients' \in [Servers -> Nat]
    BY <1>8, <2>1, TypeParts DEF Leave, Counts
  <2>3. conn' \in [Conns -> Handlers]
    BY <1>8, TypeParts, HandlerUpdates DEF Leave
  <2>4. gen' \in [Gens -> Generations]
    BY <1>8, TypeParts, GenerationUpdates DEF Leave, Over
  <2> QED
    BY <1>8, <2>2, <2>3, <2>4, TypeParts
      DEF Leave, keyVars, KeySourceTypeOK, TypeOK, Handlers, Generations
<1>9. ASSUME NEW c \in Conns, NEW k \in Kids, Hello(c, k) PROVE TypeOK'
  <2> DEFINE r == [NoVerification EXCEPT !.kid = k, !.sure = Holds(keys, k),
                                          !.cached = keys]
              ask == [r EXCEPT !.at = "refresh"]
  <2>1. Holds(keys, k) \in BOOLEAN
    BY DEF Holds
  <2>2. keys \in 0..MaxVersion
    BY TypeParts, KeySourceAssumption DEF KeySourceTypeOK
  <2>5. r \in Verifications
    BY <2>1, <2>2, Begins
  <2>6. ask \in Verifications
    BY <2>5 DEF Verifications, Waiting
  <2>3. v' = [v EXCEPT ![c] = IF keys # 0 /\ fresh THEN Answered(r, keys) ELSE ask]
    BY <1>9 DEF Hello, Keys
  <2> HIDE DEF r, ask
  <2>4. v' \in [Conns -> Verifications]
    BY <2>5, <2>6, <2>3, AnsweredFields, VerificationType, TypeParts
  <2> QED
    BY <1>9, <2>4, TypeParts
      DEF Hello, Keys, serverVars, KeySourceTypeOK, Verifications, TypeOK,
           Handlers,
          Generations
<1>10. ASSUME NEW c \in Conns, Answer(c) PROVE TypeOK'
  <2>1. v' \in [Conns -> Verifications]
    BY <1>10, NoVerificationType, VerificationType, TypeParts DEF Answer
  <2>2. conn' \in [Conns -> Handlers]
    BY <1>10, TypeParts DEF Answer, Moves, Handlers, Handling
  <2> QED
    BY <1>10, <2>1, <2>2, TypeParts
      DEF Answer, KeySourceTypeOK, Verifications, TypeOK, Handlers, Generations
<1>11. ASSUME NEW c \in Conns, NEW g \in Gens, Message(c, g) PROVE TypeOK'
  <2>1. gen' \in [Gens -> Generations]
    <3>1. \A h \in Gens : (gen[h].last /\ gen[h].conn # c) \in BOOLEAN
      OBVIOUS
    <3>2. \A h \in Gens : [gen[h] EXCEPT !.last = gen[h].last /\ gen[h].conn # c]
                              \in Generations
      BY <3>1, TypeParts, GenerationUpdates, Zenon
    <3> QED
      BY <1>11, <3>2, GenerationUpdates DEF Message
  <2>2. conn' \in [Conns -> Handlers]
    BY <1>11, TypeParts, ZenonT(60) DEF Message, Handlers, Handling
  <2> QED
    BY <1>11, <2>1, <2>2, TypeParts
      DEF Message, keyVars, KeySourceTypeOK, TypeOK, Handlers, Generations
<1>12. ASSUME NEW c \in Conns, Interrupt(c) PROVE TypeOK'
  <2>1. gen' \in [Gens -> Generations]
    <3>1. \A h \in Gens : (gen[h].told \/ (gen[h].conn = c /\ gen[h].last)) \in BOOLEAN
      OBVIOUS
    <3>2. \A h \in Gens :
             [gen[h] EXCEPT !.told = gen[h].told \/ (gen[h].conn = c /\ gen[h].last)]
                 \in Generations
      BY <3>1, TypeParts, GenerationUpdates, Zenon
    <3> QED
      BY <1>12, <3>2, GenerationUpdates DEF Interrupt
  <2>2. conn' \in [Conns -> Handlers]
    BY <1>12, TypeParts, ZenonT(60) DEF Interrupt, Handlers, Handling
  <2> QED
    BY <1>12, <2>1, <2>2, TypeParts
      DEF Interrupt, keyVars, KeySourceTypeOK, TypeOK, Handlers, Generations
<1>13. ASSUME NEW c \in Conns, OtherFrame(c) PROVE TypeOK'
  BY KeySourceAssumption, LanServerAssumption, <1>13, ZenonT(60)
       DEF OtherFrame, Moves,
       TypeOK, KeySourceTypeOK, NoConn, FreeGen, Handling, Servers,
       serverVars, keyVars
<1>14. ASSUME NEW g \in Gens, Finish(g) PROVE TypeOK'
  BY KeySourceAssumption, LanServerAssumption, <1>14, ZenonT(60) DEF Finish,
       Over,
       Untrack, TypeOK, KeySourceTypeOK, NoConn, FreeGen, Handling, Servers,
       serverVars, keyVars
<1>15. ASSUME NEW c \in Conns, KeysForKid(c), UNCHANGED serverVars PROVE
    TypeOK'
  <2>1. v' \in [Conns -> Verifications]
    <3>1. v[c] \in Verifications /\ "ok" \in Verdicts /\ "unknown" \in Verdicts
      BY VerificationType, TypeParts DEF Verdicts
    <3>2. ForceRefresh(v[c]) \in Verifications
      BY <3>1 DEF ForceRefresh, Verifications, Waiting
    <3> QED
      BY <1>15, <3>1, <3>2, VerdictFields, VerificationType, TypeParts
        DEF KeysForKid, Miss
  <2> QED
    BY <1>15, <2>1, TypeParts
      DEF KeysForKid, serverVars, KeySourceTypeOK, Verifications, TypeOK,
           Handlers, Generations
<1>16. ASSUME NEW c \in Conns, Lead(c), UNCHANGED serverVars PROVE TypeOK'
  <2>1. v' \in [Conns -> Verifications]
    BY <1>16, VerificationType, TypeParts
      DEF Lead, KeySourceTypeOK, Verifications, Waiting
  <2> QED
    BY <1>16, <2>1, TypeParts
      DEF Lead, serverVars, KeySourceTypeOK, Verifications, TypeOK, Handlers,
           Generations
<1>17. ASSUME NEW c \in Conns, Follow(c), UNCHANGED serverVars PROVE TypeOK'
  <2>1. v' \in [Conns -> Verifications]
    BY <1>17, VerificationType, TypeParts, SMTT(40)
      DEF Follow, KeySourceTypeOK, Verifications, Waiting
  <2> QED
    BY <1>17, <2>1, TypeParts
      DEF Follow, serverVars, KeySourceTypeOK, Verifications, TypeOK,
           Handlers, Generations
<1>18. ASSUME NEW c \in Conns, Respond(c), UNCHANGED serverVars PROVE TypeOK'
  <2>1. v' \in [Conns -> Verifications]
    <3>1. published \in 0..MaxVersion /\ "landed" \in Waiting
      BY TypeParts DEF KeySourceTypeOK, Waiting
    <3>2. v' = [v EXCEPT ![c] = [v[c] EXCEPT !.at = "landed", !.cached = published]]
      BY <1>18, VerificationType, TypeParts DEF Respond, Verifications
    <3>3. [v[c] EXCEPT !.at = "landed", !.cached = published] \in Verifications
      BY <3>1, StillVerifies, VerificationType, TypeParts
    <3> QED
      BY <3>2, <3>3, VerificationType, TypeParts
  <2> QED
    BY <1>18, <2>1, TypeParts
      DEF Respond, serverVars, KeySourceTypeOK, Verifications, TypeOK,
           Handlers, Generations
<1>19. ASSUME NEW c \in Conns, FetchOK(c), UNCHANGED serverVars PROVE TypeOK'
  <2>1. Store(c, v[c].cached) /\ v[c].cached \in 1..published
    BY <1>19 DEF FetchOK, LeadInv
  <2>2. v' \in [Conns -> Verifications]
    BY <2>1, StoreFields, TypeParts
  <2>3. keys' \in 0..published' /\ fresh' \in BOOLEAN
    BY <2>1, KeySourceAssumption, TypeParts DEF Store, KeySourceTypeOK
  <2> QED
    BY <1>19, <2>1, <2>2, <2>3, TypeParts
      DEF Store, serverVars, KeySourceTypeOK, Verifications, TypeOK,
           Handlers, Generations
<1>20. ASSUME NEW c \in Conns, FetchFails(c), UNCHANGED serverVars PROVE
    TypeOK'
  <2>1. Store(c, 0)
    BY <1>20 DEF FetchFails
  <2>2. v' \in [Conns -> Verifications]
    BY <2>1, StoreFields, TypeParts
  <2>3. keys' \in 0..published' /\ fresh' \in BOOLEAN
    BY <2>1, KeySourceAssumption, TypeParts DEF Store, KeySourceTypeOK
  <2> QED
    BY <1>20, <2>1, <2>2, <2>3, TypeParts
      DEF Store, serverVars, KeySourceTypeOK, Verifications, TypeOK,
           Handlers, Generations
<1>21. ASSUME NEW c \in Conns, Bail(c), UNCHANGED serverVars PROVE TypeOK'
  <2>1. v' \in [Conns -> Verifications]
    BY <1>21, AnsweredFields, VerificationType, TypeParts DEF Bail
  <2> QED
    BY <1>21, <2>1, TypeParts
      DEF Bail, serverVars, KeySourceTypeOK, Verifications, TypeOK, Handlers,
           Generations
<1>22. CASE CacheExpires /\ UNCHANGED serverVars
  BY KeySourceAssumption, LanServerAssumption, <1>22 DEF CacheExpires, TypeOK,
       KeySourceTypeOK, NoConn, FreeGen, Handling, Servers, serverVars,
       keyVars
<1>23. CASE LimitEnds /\ UNCHANGED serverVars
  BY KeySourceAssumption, LanServerAssumption, <1>23 DEF LimitEnds, TypeOK,
       KeySourceTypeOK, NoConn, FreeGen, Handling, Servers, serverVars,
       keyVars
<1>24. CASE Rotate /\ UNCHANGED serverVars
  BY KeySourceAssumption, LanServerAssumption, <1>24, SMTT(40) DEF Rotate,
       TypeOK,
       KeySourceTypeOK, NoConn, FreeGen, Handling, Servers, serverVars,
       keyVars
<1>25. CASE UNCHANGED vars
  BY KeySourceAssumption, LanServerAssumption, <1>25 DEF vars, TypeOK,
       KeySourceTypeOK, NoConn, FreeGen, Handling, Servers, serverVars,
       keyVars
<1> QED
  BY <1>1, <1>2, <1>3, <1>4, <1>5, <1>6, <1>7, <1>8, <1>9, <1>10, <1>11,
       <1>12, <1>13, <1>14, <1>15, <1>16, <1>17, <1>18, <1>19, <1>20, <1>21,
       <1>22, <1>23, <1>24, <1>25 DEF Next, Enters, Handles, Verification,
       Verifies, Elapses

LEMMA HandlerStep ==
    TypeOK /\ HandlerInv /\ [Next]_vars => HandlerInv'
<1> SUFFICES ASSUME TypeOK, HandlerInv, [Next]_vars
             PROVE  HandlerInv'
  OBVIOUS
<1>1. CASE Start
  BY KeySourceAssumption, LanServerAssumption, <1>1 DEF Start, HandlerInv,
       TypeOK, KeySourceTypeOK, NoConn, Servers, serverVars, keyVars
<1>2. CASE Stop
  BY KeySourceAssumption, LanServerAssumption, <1>2 DEF Stop, Over, Untrack,
       Of, HandlerInv, TypeOK, KeySourceTypeOK, NoConn, Servers, serverVars,
       keyVars
<1>3. ASSUME NEW c \in Conns, Reserve(c) PROVE HandlerInv'
  BY KeySourceAssumption, LanServerAssumption, <1>3, SMTT(40) DEF Reserve,
       HandlerInv,
       TypeOK, KeySourceTypeOK, NoConn, Servers, serverVars, keyVars
<1>4. ASSUME NEW c \in Conns, Refuse(c) PROVE HandlerInv'
  BY KeySourceAssumption, LanServerAssumption, <1>4 DEF Refuse, Counts, Count,
       HandlerInv, TypeOK, KeySourceTypeOK, NoConn, Servers, serverVars,
       keyVars
<1>5. ASSUME NEW c \in Conns, AcceptFails(c) PROVE HandlerInv'
  BY KeySourceAssumption, LanServerAssumption, <1>5 DEF AcceptFails, Counts,
       Count, HandlerInv, TypeOK, KeySourceTypeOK, NoConn, Servers,
       serverVars, keyVars
<1>6. ASSUME NEW c \in Conns, Accept(c) PROVE HandlerInv'
  BY KeySourceAssumption, LanServerAssumption, <1>6 DEF Accept, Moves,
       HandlerInv, TypeOK, KeySourceTypeOK, NoConn, Servers, serverVars,
       keyVars
<1>7. ASSUME NEW c \in Conns, Read(c) PROVE HandlerInv'
  BY KeySourceAssumption, LanServerAssumption, <1>7 DEF Read, Moves,
       HandlerInv, TypeOK, KeySourceTypeOK, NoConn, Servers, serverVars,
       keyVars
<1>8. ASSUME NEW c \in Conns, Leave(c) PROVE HandlerInv'
  BY KeySourceAssumption, LanServerAssumption, <1>8 DEF Leave, Counts, Count,
       Over, Of, HandlerInv, TypeOK, KeySourceTypeOK, NoConn, Servers,
       serverVars, keyVars
<1>9. ASSUME NEW c \in Conns, NEW k \in Kids, Hello(c, k) PROVE HandlerInv'
  BY KeySourceAssumption, LanServerAssumption, <1>9 DEF Hello, Keys,
       HandlerInv, TypeOK, KeySourceTypeOK, NoConn, Servers, serverVars,
       keyVars
<1>10. ASSUME NEW c \in Conns, Answer(c) PROVE HandlerInv'
  <2>1. v'[c].at = "idle" /\ \A d \in Conns \ {c} : v'[d] = v[d]
    BY <1>10, NoVerificationType, VerificationType, TypeParts DEF Answer
  <2>2. conn[c].at = "busy"
    BY <1>10 DEF Answer, HandlerInv, Verdicts
  <2> QED
    BY <1>10, <2>1, <2>2, TypeParts
      DEF Answer, Moves, HandlerInv, Handlers, TypeOK, Handlers, Generations
<1>11. ASSUME NEW c \in Conns, NEW g \in Gens, Message(c, g) PROVE HandlerInv'
  BY KeySourceAssumption, LanServerAssumption, <1>11, ZenonT(60) DEF Message,
       Begin,
       HandlerInv, TypeOK, KeySourceTypeOK, NoConn, Servers, serverVars,
       keyVars
<1>12. ASSUME NEW c \in Conns, Interrupt(c) PROVE HandlerInv'
  BY KeySourceAssumption, LanServerAssumption, <1>12, ZenonT(60) DEF Interrupt,
       HandlerInv, TypeOK, KeySourceTypeOK, NoConn, Servers, serverVars,
       keyVars
<1>13. ASSUME NEW c \in Conns, OtherFrame(c) PROVE HandlerInv'
  BY KeySourceAssumption, LanServerAssumption, <1>13 DEF OtherFrame, Moves,
       HandlerInv, TypeOK, KeySourceTypeOK, NoConn, Servers, serverVars,
       keyVars
<1>14. ASSUME NEW g \in Gens, Finish(g) PROVE HandlerInv'
  BY KeySourceAssumption, LanServerAssumption, <1>14 DEF Finish, Over,
       Untrack, HandlerInv, TypeOK, KeySourceTypeOK, NoConn, Servers,
       serverVars, keyVars
<1>15. ASSUME NEW c \in Conns, KeysForKid(c), UNCHANGED serverVars PROVE
    HandlerInv'
  BY KeySourceAssumption, LanServerAssumption, <1>15 DEF KeysForKid,
       HandlerInv, TypeOK, KeySourceTypeOK, NoConn, Servers, serverVars,
       keyVars
<1>16. ASSUME NEW c \in Conns, Lead(c), UNCHANGED serverVars PROVE HandlerInv'
  BY KeySourceAssumption, LanServerAssumption, <1>16 DEF Lead, HandlerInv,
       TypeOK, KeySourceTypeOK, NoConn, Servers, serverVars, keyVars
<1>17. ASSUME NEW c \in Conns, Follow(c), UNCHANGED serverVars PROVE
    HandlerInv'
  BY KeySourceAssumption, LanServerAssumption, <1>17 DEF Follow, HandlerInv,
       TypeOK, KeySourceTypeOK, NoConn, Servers, serverVars, keyVars
<1>18. ASSUME NEW c \in Conns, Respond(c), UNCHANGED serverVars PROVE
    HandlerInv'
  BY KeySourceAssumption, LanServerAssumption, <1>18 DEF Respond, HandlerInv,
       TypeOK, KeySourceTypeOK, NoConn, Servers, serverVars, keyVars
<1>19. ASSUME NEW c \in Conns, FetchOK(c), UNCHANGED serverVars PROVE
    HandlerInv'
  <2>1. Store(c, v[c].cached) /\ v[c].at # "idle"
    BY <1>19 DEF FetchOK
  <2>2. \A d \in Conns : v'[d].at # "idle" => v[d].at # "idle"
    BY <2>1, StoreFields, TypeParts DEF Told
  <2> QED
    BY <1>19, <2>2 DEF HandlerInv, serverVars
<1>20. ASSUME NEW c \in Conns, FetchFails(c), UNCHANGED serverVars PROVE
    HandlerInv'
  <2>1. Store(c, 0) /\ v[c].at # "idle"
    BY <1>20 DEF FetchFails
  <2>2. \A d \in Conns : v'[d].at # "idle" => v[d].at # "idle"
    BY <2>1, StoreFields, TypeParts DEF Told
  <2> QED
    BY <1>20, <2>2 DEF HandlerInv, serverVars
<1>21. ASSUME NEW c \in Conns, Bail(c), UNCHANGED serverVars PROVE HandlerInv'
  BY KeySourceAssumption, LanServerAssumption, <1>21 DEF Bail, HandlerInv,
       TypeOK, KeySourceTypeOK, NoConn, Servers, serverVars, keyVars
<1>22. CASE CacheExpires /\ UNCHANGED serverVars
  BY KeySourceAssumption, LanServerAssumption, <1>22 DEF CacheExpires,
       HandlerInv, TypeOK, KeySourceTypeOK, NoConn, Servers, serverVars,
       keyVars
<1>23. CASE LimitEnds /\ UNCHANGED serverVars
  BY KeySourceAssumption, LanServerAssumption, <1>23 DEF LimitEnds,
       HandlerInv, TypeOK, KeySourceTypeOK, NoConn, Servers, serverVars,
       keyVars
<1>24. CASE Rotate /\ UNCHANGED serverVars
  BY KeySourceAssumption, LanServerAssumption, <1>24 DEF Rotate, HandlerInv,
       TypeOK, KeySourceTypeOK, NoConn, Servers, serverVars, keyVars
<1>25. CASE UNCHANGED vars
  BY KeySourceAssumption, LanServerAssumption, <1>25 DEF vars, HandlerInv,
       TypeOK, KeySourceTypeOK, NoConn, Servers, serverVars, keyVars
<1> QED
  BY <1>1, <1>2, <1>3, <1>4, <1>5, <1>6, <1>7, <1>8, <1>9, <1>10, <1>11,
       <1>12, <1>13, <1>14, <1>15, <1>16, <1>17, <1>18, <1>19, <1>20, <1>21,
       <1>22, <1>23, <1>24, <1>25 DEF Next, Enters, Handles, Verification,
       Verifies, Elapses

-----------------------------------------------------------------------------
(***************************************************************************)
(* Slots.                                                                  *)
(***************************************************************************)
\* There are finitely many handlers.
LEMMA HeldFinite ==
    \A i : /\ IsFiniteSet(Held(i)) /\ IsFiniteSet(Admitted(i))
           /\ Cardinality(Held(i)) \in Nat /\ Cardinality(Admitted(i)) \in Nat
           /\ Cardinality(Admitted(i)) <= Cardinality(Held(i))
<1> SUFFICES ASSUME NEW i
             PROVE  /\ IsFiniteSet(Held(i)) /\ IsFiniteSet(Admitted(i))
                    /\ Cardinality(Held(i)) \in Nat
                    /\ Cardinality(Admitted(i)) \in Nat
                    /\ Cardinality(Admitted(i)) <= Cardinality(Held(i))
  OBVIOUS
<1>1. Held(i) \in SUBSET Conns /\ Admitted(i) \in SUBSET Held(i)
  BY DEF Held, Admitted
<1>2. IsFiniteSet(Held(i))
  BY <1>1, FS_Subset, LanServerAssumption
<1> QED
  BY <1>1, <1>2, FS_Subset, FS_CardinalityType

\* A step that neither reserves nor releases a slot.
LEMMA SlotsStay ==
    ASSUME SlotInv, UNCHANGED clients,
           \A c \in Conns : /\ conn'[c].on = conn[c].on
                            /\ conn'[c].at = conn[c].at
                                  \/ {conn[c].at, conn'[c].at}
                                         \subseteq Handling \ {"over"}
    PROVE  SlotInv'
<1>1. \A i : Held(i)' = Held(i) /\ Admitted(i)' = Admitted(i)
  BY DEF Held, Admitted
<1> QED
  BY <1>1 DEF SlotInv

\* The deferred release, and that of a refused client.
LEMMA SlotReleased ==
    ASSUME TypeOK, HandlerInv, SlotInv, NEW c \in Conns, conn[c].at # "off",
           Counts(c, Count(c) - 1), conn' = [conn EXCEPT ![c] = NoConn]
    PROVE  SlotInv'
<1>1. conn[c].on \in Servers /\ c \in Held(conn[c].on)
  BY DEF HandlerInv, Held, TypeOK
<1>2. SUFFICES ASSUME NEW i \in Servers
               PROVE  /\ clients'[i] = Cardinality(Held(i)')
                      /\ Cardinality(Admitted(i)') <= maxClients
  BY DEF SlotInv
<1>3. Held(i)' = Held(i) \ {c} /\ Admitted(i)' = Admitted(i) \ {c}
  BY DEF Held, Admitted, NoConn, TypeOK, Servers, Handling
<1>4. c \in Held(i) <=> i = conn[c].on
  BY <1>1 DEF Held
<1>5. clients'[i] = IF i = conn[c].on THEN clients[i] - 1 ELSE clients[i]
  BY <1>1 DEF Counts, Count, TypeOK
<1>6. Cardinality(Held(i)') = IF i = conn[c].on THEN Cardinality(Held(i)) - 1
                                                ELSE Cardinality(Held(i))
  BY <1>3, <1>4, HeldFinite, FS_RemoveElement
<1>9. IsFiniteSet(Admitted(i)) /\ Cardinality(Admitted(i)) \in Nat
  BY HeldFinite
<1>7. Cardinality(Admitted(i)') <= Cardinality(Admitted(i))
  <2>1. Cardinality(Admitted(i) \ {c}) =
            IF c \in Admitted(i) THEN Cardinality(Admitted(i)) - 1
                                 ELSE Cardinality(Admitted(i))
    BY <1>9, FS_RemoveElement
  <2> QED
    BY <1>3, <1>9, <2>1
<1>8. Cardinality(Admitted(i)') \in Nat
  BY <1>3, HeldFinite, FS_RemoveElement, FS_CardinalityType
<1> QED
  BY <1>5, <1>6, <1>7, <1>8, HeldFinite, LanServerAssumption DEF SlotInv

\* The counter is raised, and compared afterwards.
LEMMA SlotReserved ==
    ASSUME TypeOK, HandlerInv, SlotInv, NEW c \in Conns, Reserve(c)
    PROVE  SlotInv'
<1>1. inc \in Servers /\ conn[c].at = "off" /\ conn[c].on = 0
  BY DEF Reserve, HandlerInv, TypeOK, Servers
<1>2. SUFFICES ASSUME NEW i \in Servers
               PROVE  /\ clients'[i] = Cardinality(Held(i)')
                      /\ Cardinality(Admitted(i)') <= maxClients
  BY DEF SlotInv
<1>3. CASE i = inc
  <2>1. Held(i)' = Held(i) \cup {c} /\ c \notin Held(i) /\ c \notin Admitted(i)
    BY <1>1, <1>3 DEF Reserve, Held, Admitted, TypeOK, Servers, Handling
  <2>2. clients'[i] = clients[i] + 1
    BY <1>1, <1>3 DEF Reserve, TypeOK
  <2>3. Cardinality(Held(i)') = Cardinality(Held(i)) + 1
    BY <2>1, HeldFinite, FS_AddElement
  <2>4. CASE clients[i] + 1 > maxClients
    <3>1. Admitted(i)' = Admitted(i)
      BY <1>1, <1>3, <2>4 DEF Reserve, Admitted, TypeOK, Handling
    <3> QED
      BY <2>2, <2>3, <3>1 DEF SlotInv
  <2>5. CASE ~(clients[i] + 1 > maxClients)
    <3>1. Admitted(i)' = Admitted(i) \cup {c}
      BY <1>1, <1>3, <2>5 DEF Reserve, Admitted, TypeOK, Handling
    <3>2. Cardinality(Admitted(i)') = Cardinality(Admitted(i)) + 1
      BY <2>1, <3>1, HeldFinite, FS_AddElement
    <3> QED
      BY <2>2, <2>3, <2>5, <3>2, HeldFinite, LanServerAssumption
        DEF SlotInv, TypeOK
  <2> QED
    BY <2>4, <2>5
<1>4. CASE i # inc
  <2>1. Held(i)' = Held(i) /\ Admitted(i)' = Admitted(i)
    BY <1>1, <1>4 DEF Reserve, Held, Admitted, TypeOK, Servers, Handling
  <2>2. clients'[i] = clients[i]
    BY <1>1, <1>4 DEF Reserve, TypeOK
  <2> QED
    BY <2>1, <2>2 DEF SlotInv
<1> QED
  BY <1>3, <1>4

LEMMA SlotStep ==
    TypeOK /\ HandlerInv /\ SlotInv /\ [Next]_vars => SlotInv'
<1> SUFFICES ASSUME TypeOK, HandlerInv, SlotInv, [Next]_vars
             PROVE  SlotInv'
  OBVIOUS
<1>1. CASE Start
  BY SlotsStay, <1>1 DEF Start, TypeOK, Handlers, Handling, HandlerInv,
       Verdicts, serverVars
<1>2. CASE Stop
  BY SlotsStay, <1>2 DEF Stop, Over, Untrack, Of, TypeOK, Handlers, Handling,
       HandlerInv, Verdicts, serverVars
<1>3. ASSUME NEW c \in Conns, Reserve(c) PROVE SlotInv'
  BY <1>3, SlotReserved
<1>4. ASSUME NEW c \in Conns, Refuse(c) PROVE SlotInv'
  BY <1>4, SlotReleased DEF Refuse
<1>5. ASSUME NEW c \in Conns, AcceptFails(c) PROVE SlotInv'
  BY <1>5, SlotReleased DEF AcceptFails
<1>6. ASSUME NEW c \in Conns, Accept(c) PROVE SlotInv'
  BY SlotsStay, <1>6 DEF Accept, Moves, TypeOK, Handlers, Handling,
       HandlerInv, Verdicts, serverVars
<1>7. ASSUME NEW c \in Conns, Read(c) PROVE SlotInv'
  BY SlotsStay, <1>7 DEF Read, Moves, TypeOK, Handlers, Handling, HandlerInv,
       Verdicts, serverVars
<1>8. ASSUME NEW c \in Conns, Leave(c) PROVE SlotInv'
  BY <1>8, SlotReleased DEF Leave
<1>9. ASSUME NEW c \in Conns, NEW k \in Kids, Hello(c, k) PROVE SlotInv'
  BY SlotsStay, <1>9 DEF Hello, Keys, TypeOK, Handlers, Handling, HandlerInv,
       Verdicts, serverVars
<1>10. ASSUME NEW c \in Conns, Answer(c) PROVE SlotInv'
  BY SlotsStay, <1>10 DEF Answer, Moves, TypeOK, Handlers, Handling,
       HandlerInv, Verdicts, serverVars
<1>11. ASSUME NEW c \in Conns, NEW g \in Gens, Message(c, g) PROVE SlotInv'
  BY SlotsStay, <1>11 DEF Message, Begin, TypeOK, Handlers, Handling,
       HandlerInv, Verdicts, serverVars
<1>12. ASSUME NEW c \in Conns, Interrupt(c) PROVE SlotInv'
  BY SlotsStay, <1>12 DEF Interrupt, TypeOK, Handlers, Handling, HandlerInv,
       Verdicts, serverVars
<1>13. ASSUME NEW c \in Conns, OtherFrame(c) PROVE SlotInv'
  BY SlotsStay, <1>13 DEF OtherFrame, Moves, TypeOK, Handlers, Handling,
       HandlerInv, Verdicts, serverVars
<1>14. ASSUME NEW g \in Gens, Finish(g) PROVE SlotInv'
  BY SlotsStay, <1>14 DEF Finish, Over, Untrack, TypeOK, Handlers, Handling,
       HandlerInv, Verdicts, serverVars
<1>15. ASSUME NEW c \in Conns, KeysForKid(c), UNCHANGED serverVars PROVE
    SlotInv'
  BY SlotsStay, <1>15 DEF KeysForKid, TypeOK, Handlers, Handling, HandlerInv,
       Verdicts, serverVars
<1>16. ASSUME NEW c \in Conns, Lead(c), UNCHANGED serverVars PROVE SlotInv'
  BY SlotsStay, <1>16 DEF Lead, TypeOK, Handlers, Handling, HandlerInv,
       Verdicts, serverVars
<1>17. ASSUME NEW c \in Conns, Follow(c), UNCHANGED serverVars PROVE SlotInv'
  BY SlotsStay, <1>17 DEF Follow, TypeOK, Handlers, Handling, HandlerInv,
       Verdicts, serverVars
<1>18. ASSUME NEW c \in Conns, Respond(c), UNCHANGED serverVars PROVE SlotInv'
  BY SlotsStay, <1>18 DEF Respond, TypeOK, Handlers, Handling, HandlerInv,
       Verdicts, serverVars
<1>19. ASSUME NEW c \in Conns, FetchOK(c), UNCHANGED serverVars PROVE SlotInv'
  BY SlotsStay, <1>19 DEF FetchOK, Store, TypeOK, Handlers, Handling,
       HandlerInv, Verdicts, serverVars
<1>20. ASSUME NEW c \in Conns, FetchFails(c), UNCHANGED serverVars PROVE
    SlotInv'
  BY SlotsStay, <1>20 DEF FetchFails, Store, TypeOK, Handlers, Handling,
       HandlerInv, Verdicts, serverVars
<1>21. ASSUME NEW c \in Conns, Bail(c), UNCHANGED serverVars PROVE SlotInv'
  BY SlotsStay, <1>21 DEF Bail, TypeOK, Handlers, Handling, HandlerInv,
       Verdicts, serverVars
<1>22. CASE CacheExpires /\ UNCHANGED serverVars
  BY SlotsStay, <1>22 DEF CacheExpires, TypeOK, Handlers, Handling,
       HandlerInv, Verdicts, serverVars
<1>23. CASE LimitEnds /\ UNCHANGED serverVars
  BY SlotsStay, <1>23 DEF LimitEnds, TypeOK, Handlers, Handling, HandlerInv,
       Verdicts, serverVars
<1>24. CASE Rotate /\ UNCHANGED serverVars
  BY SlotsStay, <1>24 DEF Rotate, TypeOK, Handlers, Handling, HandlerInv,
       Verdicts, serverVars
<1>25. CASE UNCHANGED vars
  BY SlotsStay, <1>25 DEF vars, TypeOK, Handlers, Handling, HandlerInv,
       Verdicts, serverVars
<1> QED
  BY <1>1, <1>2, <1>3, <1>4, <1>5, <1>6, <1>7, <1>8, <1>9, <1>10, <1>11,
       <1>12, <1>13, <1>14, <1>15, <1>16, <1>17, <1>18, <1>19, <1>20, <1>21,
       <1>22, <1>23, <1>24, <1>25 DEF Next, Enters, Handles, Verification,
       Verifies, Elapses

-----------------------------------------------------------------------------
(***************************************************************************)
(* The key cache.                                                          *)
(***************************************************************************)
LEMMA LeadStep ==
    TypeOK /\ LeadInv /\ [Next]_vars => LeadInv'
<1> SUFFICES ASSUME TypeOK, LeadInv, [Next]_vars
             PROVE  LeadInv'
  OBVIOUS
<1>1. CASE Start
  BY KeySourceAssumption, LanServerAssumption, <1>1 DEF Start, LeadInv,
       TypeOK, KeySourceTypeOK, serverVars, keyVars
<1>2. CASE Stop
  BY KeySourceAssumption, LanServerAssumption, <1>2 DEF Stop, Over, Untrack,
       Of, LeadInv, TypeOK, KeySourceTypeOK, serverVars, keyVars
<1>3. ASSUME NEW c \in Conns, Reserve(c) PROVE LeadInv'
  BY KeySourceAssumption, LanServerAssumption, <1>3 DEF Reserve, LeadInv,
       TypeOK, KeySourceTypeOK, serverVars, keyVars
<1>4. ASSUME NEW c \in Conns, Refuse(c) PROVE LeadInv'
  BY KeySourceAssumption, LanServerAssumption, <1>4 DEF Refuse, Counts, Count,
       LeadInv, TypeOK, KeySourceTypeOK, serverVars, keyVars
<1>5. ASSUME NEW c \in Conns, AcceptFails(c) PROVE LeadInv'
  BY KeySourceAssumption, LanServerAssumption, <1>5 DEF AcceptFails, Counts,
       Count, LeadInv, TypeOK, KeySourceTypeOK, serverVars, keyVars
<1>6. ASSUME NEW c \in Conns, Accept(c) PROVE LeadInv'
  BY KeySourceAssumption, LanServerAssumption, <1>6 DEF Accept, Moves,
       LeadInv, TypeOK, KeySourceTypeOK, serverVars, keyVars
<1>7. ASSUME NEW c \in Conns, Read(c) PROVE LeadInv'
  BY KeySourceAssumption, LanServerAssumption, <1>7 DEF Read, Moves, LeadInv,
       TypeOK, KeySourceTypeOK, serverVars, keyVars
<1>8. ASSUME NEW c \in Conns, Leave(c) PROVE LeadInv'
  BY KeySourceAssumption, LanServerAssumption, <1>8 DEF Leave, Counts, Count,
       Over, Of, LeadInv, TypeOK, KeySourceTypeOK, serverVars, keyVars
<1>9. ASSUME NEW c \in Conns, NEW k \in Kids, Hello(c, k) PROVE LeadInv'
  <2> DEFINE r == [NoVerification EXCEPT !.kid = k, !.sure = Holds(keys, k),
                                          !.cached = keys]
              ask == [r EXCEPT !.at = "refresh"]
  <2>1. Holds(keys, k) \in BOOLEAN /\ keys \in 0..MaxVersion
    BY TypeParts, KeySourceAssumption DEF Holds, KeySourceTypeOK
  <2>2. r \in Verifications
    BY <2>1, Begins
  <2>3. ask.at = "refresh"
    BY <2>2 DEF Verifications
  <2>4. v' = [v EXCEPT ![c] = IF keys # 0 /\ fresh THEN Answered(r, keys) ELSE ask]
    BY <1>9 DEF Hello, Keys
  <2> HIDE DEF r, ask
  <2>5. v'[c].at \notin {"fetch", "landed"} /\ \A d \in Conns \ {c} : v'[d] = v[d]
    BY <2>2, <2>3, <2>4, AnsweredFields, VerificationType, TypeParts
         DEF Verdicts
  <2> QED
    BY <1>9, <2>5 DEF Hello, Keys, LeadInv
<1>10. ASSUME NEW c \in Conns, Answer(c) PROVE LeadInv'
  <2>1. v'[c].at = "idle" /\ \A d \in Conns \ {c} : v'[d] = v[d]
    BY <1>10, NoVerificationType, VerificationType, TypeParts DEF Answer
  <2> QED
    BY <1>10, <2>1 DEF Answer, LeadInv
<1>11. ASSUME NEW c \in Conns, NEW g \in Gens, Message(c, g) PROVE LeadInv'
  BY KeySourceAssumption, LanServerAssumption, <1>11 DEF Message, Begin,
       LeadInv, TypeOK, KeySourceTypeOK, serverVars, keyVars
<1>12. ASSUME NEW c \in Conns, Interrupt(c) PROVE LeadInv'
  BY KeySourceAssumption, LanServerAssumption, <1>12 DEF Interrupt, LeadInv,
       TypeOK, KeySourceTypeOK, serverVars, keyVars
<1>13. ASSUME NEW c \in Conns, OtherFrame(c) PROVE LeadInv'
  BY KeySourceAssumption, LanServerAssumption, <1>13 DEF OtherFrame, Moves,
       LeadInv, TypeOK, KeySourceTypeOK, serverVars, keyVars
<1>14. ASSUME NEW g \in Gens, Finish(g) PROVE LeadInv'
  BY KeySourceAssumption, LanServerAssumption, <1>14 DEF Finish, Over,
       Untrack, LeadInv, TypeOK, KeySourceTypeOK, serverVars, keyVars
<1>15. ASSUME NEW c \in Conns, KeysForKid(c), UNCHANGED serverVars PROVE
    LeadInv'
  <2>1. "ok" \in Verdicts /\ "unknown" \in Verdicts /\ v[c] \in Verifications
    BY VerificationType, TypeParts DEF Verdicts
  <2>2. ForceRefresh(v[c]).at = "refresh"
    BY <2>1 DEF ForceRefresh, Verifications
  <2>3. v'[c].at \notin {"fetch", "landed"} /\ \A d \in Conns \ {c} : v'[d] = v[d]
    BY <1>15, <2>1, <2>2, VerdictFields, VerificationType, TypeParts
      DEF KeysForKid, Miss
  <2> QED
    BY <1>15, <2>3 DEF KeysForKid, LeadInv
<1>16. ASSUME NEW c \in Conns, Lead(c), UNCHANGED serverVars PROVE LeadInv'
  BY KeySourceAssumption, LanServerAssumption, <1>16 DEF Lead, LeadInv,
       TypeOK, KeySourceTypeOK, serverVars, keyVars
<1>17. ASSUME NEW c \in Conns, Follow(c), UNCHANGED serverVars PROVE LeadInv'
  BY KeySourceAssumption, LanServerAssumption, <1>17 DEF Follow, LeadInv,
       TypeOK, KeySourceTypeOK, serverVars, keyVars
<1>18. ASSUME NEW c \in Conns, Respond(c), UNCHANGED serverVars PROVE LeadInv'
  BY KeySourceAssumption, LanServerAssumption, <1>18 DEF Respond, LeadInv,
       TypeOK, KeySourceTypeOK, serverVars, keyVars
<1>19. ASSUME NEW c \in Conns, FetchOK(c), UNCHANGED serverVars PROVE LeadInv'
  <2>1. Store(c, v[c].cached) /\ v[c].at \in {"fetch", "landed"}
    BY <1>19 DEF FetchOK
  <2>2. \A d \in Conns : v'[d].at \notin {"fetch", "landed"}
    <3> SUFFICES ASSUME NEW d \in Conns PROVE v'[d].at \notin {"fetch", "landed"}
      OBVIOUS
    <3>1. CASE Told(d, c, v[c].cached)
      BY <2>1, <3>1, StoreFields, TypeParts DEF Verdicts
    <3>2. CASE ~Told(d, c, v[c].cached)
      BY <2>1, <3>2, StoreFields, TypeParts DEF Told, LeadInv
    <3> QED
      BY <3>1, <3>2
  <2> QED
    BY <2>2 DEF LeadInv
<1>20. ASSUME NEW c \in Conns, FetchFails(c), UNCHANGED serverVars PROVE
    LeadInv'
  <2>1. Store(c, 0) /\ v[c].at \in {"fetch", "landed"}
    BY <1>20 DEF FetchFails
  <2>2. \A d \in Conns : v'[d].at \notin {"fetch", "landed"}
    <3> SUFFICES ASSUME NEW d \in Conns PROVE v'[d].at \notin {"fetch", "landed"}
      OBVIOUS
    <3>1. CASE Told(d, c, 0)
      BY <2>1, <3>1, StoreFields, TypeParts DEF Verdicts
    <3>2. CASE ~Told(d, c, 0)
      BY <2>1, <3>2, StoreFields, TypeParts DEF Told, LeadInv
    <3> QED
      BY <3>1, <3>2
  <2> QED
    BY <2>2 DEF LeadInv
<1>21. ASSUME NEW c \in Conns, Bail(c), UNCHANGED serverVars PROVE LeadInv'
  <2>1. v'[c].at \notin {"fetch", "landed"} /\ \A d \in Conns \ {c} : v'[d] = v[d]
    BY <1>21, AnsweredFields, VerificationType, TypeParts DEF Bail, Verdicts
  <2> QED
    BY <1>21, <2>1 DEF Bail, LeadInv
<1>22. CASE CacheExpires /\ UNCHANGED serverVars
  BY KeySourceAssumption, LanServerAssumption, <1>22 DEF CacheExpires,
       LeadInv, TypeOK, KeySourceTypeOK, serverVars, keyVars
<1>23. CASE LimitEnds /\ UNCHANGED serverVars
  BY KeySourceAssumption, LanServerAssumption, <1>23 DEF LimitEnds, LeadInv,
       TypeOK, KeySourceTypeOK, serverVars, keyVars
<1>24. CASE Rotate /\ UNCHANGED serverVars
  BY KeySourceAssumption, LanServerAssumption, <1>24 DEF Rotate, LeadInv,
       TypeOK, KeySourceTypeOK, serverVars, keyVars
<1>25. CASE UNCHANGED vars
  BY KeySourceAssumption, LanServerAssumption, <1>25 DEF vars, LeadInv,
       TypeOK, KeySourceTypeOK, serverVars, keyVars
<1> QED
  BY <1>1, <1>2, <1>3, <1>4, <1>5, <1>6, <1>7, <1>8, <1>9, <1>10, <1>11,
       <1>12, <1>13, <1>14, <1>15, <1>16, <1>17, <1>18, <1>19, <1>20, <1>21,
       <1>22, <1>23, <1>24, <1>25 DEF Next, Enters, Handles, Verification,
       Verifies, Elapses

-----------------------------------------------------------------------------
(***************************************************************************)
(* These four need each other: a counter is a natural number because it    *)
(* counts handlers, and the cache no newer than what is published because  *)
(* a leader's answer is not.                                               *)
(***************************************************************************)
CoreInv == TypeOK /\ HandlerInv /\ SlotInv /\ LeadInv

LEMMA CoreCorrect == Spec => []CoreInv
<1>1. Init => CoreInv
  <2> SUFFICES ASSUME Init PROVE CoreInv
    OBVIOUS
  <2>1. KeySourceTypeOK
    <3>1. published \in 1..MaxVersion /\ keys \in 0..published /\ burst \in Nat
      BY KeySourceAssumption DEF Init, KeySourceInit
    <3>2. fresh \in BOOLEAN /\ limited \in BOOLEAN
      BY DEF Init, KeySourceInit
    <3>3. v \in [Conns -> Verifications]
      BY NoVerificationType DEF Init, KeySourceInit
    <3> QED
      BY <3>1, <3>2, <3>3
        DEF Init, KeySourceInit, KeySourceTypeOK, Verifications
  <2>2. conn \in [Conns -> Handlers] /\ gen \in [Gens -> Generations]
    BY HandlerUpdates, GenerationUpdates DEF Init
  <2>3. TypeOK
    <3>1. inc \in 0..MaxStarts /\ clients \in [Servers -> Nat]
      BY LanServerAssumption DEF Init
    <3>2. up \in BOOLEAN
      BY DEF Init
    <3> QED
      BY <2>1, <2>2, <3>1, <3>2 DEF TypeOK, Handlers, Generations
  <2>4. HandlerInv /\ LeadInv
    BY NoVerificationType DEF Init, KeySourceInit, HandlerInv, LeadInv, NoConn
  <2>5. \A i \in Servers : Held(i) = {} /\ Admitted(i) = {}
    BY DEF Init, Held, Admitted, NoConn, Servers, Handling
  <2>6. SlotInv
    BY <2>5, FS_EmptySet, LanServerAssumption DEF Init, SlotInv
  <2> QED
    BY <2>3, <2>4, <2>6 DEF CoreInv
<1>2. CoreInv /\ [Next]_vars => CoreInv'
  BY TypeStep, HandlerStep, SlotStep, LeadStep DEF CoreInv
<1> QED
  BY <1>1, <1>2, PTL DEF Spec

(***************************************************************************)
(* handleWebSocket and the key cache keep their types: in particular a     *)
(* slot counter never goes below zero.                                     *)
(***************************************************************************)
THEOREM TypeCorrect == Spec => []TypeOK
<1>1. CoreInv => TypeOK
  BY DEF CoreInv
<1> QED
  BY <1>1, CoreCorrect, PTL

(***************************************************************************)
(* However many clients come and go at however many servers one after the  *)
(* other, a server's counter is the number of its handlers, and no more    *)
(* than maxClients of them are admitted (handleWebSocket).                 *)
(***************************************************************************)
THEOREM SlotsCorrect == Spec => []SlotsKept
<1>1. CoreInv => SlotsKept
  BY SMTT(40) DEF CoreInv, SlotInv, SlotsKept, Held, Admitted
<1> QED
  BY <1>1, CoreCorrect, PTL

(***************************************************************************)
(* A fetch that is answered late does not bring old keys back: the cache   *)
(* has one leader at a time, and its answer is no older (refresh).         *)
(***************************************************************************)
THEOREM RegressCorrect == Spec => KeysNotRegress
<1>1. CoreInv /\ [Next]_vars => [keys' >= keys]_vars
  <2> SUFFICES ASSUME CoreInv, [Next]_vars PROVE keys' >= keys
    OBVIOUS
  <2>1. keys \in Nat
    BY KeySourceAssumption DEF CoreInv, TypeOK, KeySourceTypeOK
  <2>2. ASSUME NEW c \in Conns, FetchOK(c) PROVE keys' >= keys
    BY <2>1, <2>2 DEF FetchOK, Store, CoreInv, LeadInv
  <2>3. CASE UNCHANGED keys
    BY <2>1, <2>3
  <2> QED
    BY <2>2, <2>3, ZenonT(60)
      DEF Next, vars, serverVars, keyVars, Start, Stop, Reserve, Enters,
           Refuse,
          AcceptFails, Accept, Read, Leave, Handles, Hello, Keys, Answer, Message,
          Interrupt, OtherFrame, Verification, Verifies, KeysForKid, Lead, Follow,
          Respond, FetchFails, Store, Bail, Finish, Elapses, CacheExpires,
          LimitEnds, Rotate
<1> QED
  BY <1>1, CoreCorrect, PTL DEF Spec, KeysNotRegress

-----------------------------------------------------------------------------
(***************************************************************************)
(* Contexts.                                                               *)
(***************************************************************************)
LEMMA ContextStep ==
    TypeOK /\ HandlerInv /\ ContextInv /\ [Next]_vars => ContextInv'
<1> SUFFICES ASSUME TypeOK, HandlerInv, ContextInv, [Next]_vars
             PROVE  ContextInv'
  OBVIOUS
<1>1. CASE Start
  BY KeySourceAssumption, LanServerAssumption, TypeParts, <1>1 DEF Start,
       ContextInv, HandlerInv, Handlers, Generations, FreeGen, NoConn,
       KeySourceTypeOK, serverVars, keyVars
<1>2. CASE Stop
  BY KeySourceAssumption, LanServerAssumption, TypeParts, <1>2 DEF Stop, Over,
       Untrack, Of, ContextInv, HandlerInv, Handlers, Generations, FreeGen,
       NoConn, KeySourceTypeOK, serverVars, keyVars
<1>3. ASSUME NEW c \in Conns, Reserve(c) PROVE ContextInv'
  BY KeySourceAssumption, LanServerAssumption, TypeParts, <1>3 DEF Reserve,
       ContextInv, HandlerInv, Handlers, Generations, FreeGen, NoConn,
       KeySourceTypeOK, serverVars, keyVars
<1>4. ASSUME NEW c \in Conns, Refuse(c) PROVE ContextInv'
  BY KeySourceAssumption, LanServerAssumption, TypeParts, <1>4 DEF Refuse,
       Counts, Count, ContextInv, HandlerInv, Handlers, Generations, FreeGen,
       NoConn, KeySourceTypeOK, serverVars, keyVars
<1>5. ASSUME NEW c \in Conns, AcceptFails(c) PROVE ContextInv'
  BY KeySourceAssumption, LanServerAssumption, TypeParts, <1>5 DEF
       AcceptFails, Counts, Count, ContextInv, HandlerInv, Handlers,
       Generations, FreeGen, NoConn, KeySourceTypeOK, serverVars, keyVars
<1>6. ASSUME NEW c \in Conns, Accept(c) PROVE ContextInv'
  <2>1. conn' = [conn EXCEPT ![c].at = "open"]
    BY <1>6 DEF Accept, Moves
  <2>2. \A d \in Conns : /\ conn'[d].on = conn[d].on
                         /\ conn'[d].tracked = conn[d].tracked
                         /\ conn'[d].at = IF d = c THEN "open" ELSE conn[d].at
    BY <2>1, TypeParts DEF Handlers
  <2>3. live \subseteq live' /\ live' \subseteq live \cup {c}
           /\ (c \in live' => up /\ conn[c].on = inc)
    BY <1>6 DEF Accept, ContextInv
  <2> QED
    BY <1>6, <2>2, <2>3, TypeParts, SMTT(40)
      DEF Accept, ContextInv, KeySourceTypeOK, Generations
<1>7. ASSUME NEW c \in Conns, Read(c) PROVE ContextInv'
  BY KeySourceAssumption, LanServerAssumption, TypeParts, <1>7 DEF Read,
       Moves, ContextInv, HandlerInv, Handlers, Generations, FreeGen, NoConn,
       KeySourceTypeOK, serverVars, keyVars
<1>8. ASSUME NEW c \in Conns, Leave(c) PROVE ContextInv'
  BY KeySourceAssumption, LanServerAssumption, TypeParts, <1>8 DEF Leave,
       Counts, Count, Over, Of, ContextInv, HandlerInv, Handlers, Generations,
       FreeGen, NoConn, KeySourceTypeOK, serverVars, keyVars
<1>9. ASSUME NEW c \in Conns, NEW k \in Kids, Hello(c, k) PROVE ContextInv'
  BY KeySourceAssumption, LanServerAssumption, TypeParts, <1>9 DEF Hello,
       Keys, ContextInv, HandlerInv, Handlers, Generations, FreeGen, NoConn,
       KeySourceTypeOK, serverVars, keyVars
<1>10. ASSUME NEW c \in Conns, Answer(c) PROVE ContextInv'
  BY KeySourceAssumption, LanServerAssumption, TypeParts, <1>10 DEF Answer,
       Moves, ContextInv, HandlerInv, Handlers, Generations, FreeGen, NoConn,
       KeySourceTypeOK, serverVars, keyVars
<1>11. ASSUME NEW c \in Conns, NEW g \in Gens, Message(c, g) PROVE ContextInv'
  BY KeySourceAssumption, LanServerAssumption, TypeParts, <1>11 DEF Message,
       Begin, ContextInv, HandlerInv, Handlers, Generations, FreeGen, NoConn,
       KeySourceTypeOK, serverVars, keyVars
<1>12. ASSUME NEW c \in Conns, Interrupt(c) PROVE ContextInv'
  BY KeySourceAssumption, LanServerAssumption, TypeParts, <1>12 DEF Interrupt,
       ContextInv, HandlerInv, Handlers, Generations, FreeGen, NoConn,
       KeySourceTypeOK, serverVars, keyVars
<1>13. ASSUME NEW c \in Conns, OtherFrame(c) PROVE ContextInv'
  BY KeySourceAssumption, LanServerAssumption, TypeParts, <1>13 DEF
       OtherFrame, Moves, ContextInv, HandlerInv, Handlers, Generations,
       FreeGen, NoConn, KeySourceTypeOK, serverVars, keyVars
<1>14. ASSUME NEW g \in Gens, Finish(g) PROVE ContextInv'
  BY KeySourceAssumption, LanServerAssumption, TypeParts, <1>14 DEF Finish,
       Over, Untrack, ContextInv, HandlerInv, Handlers, Generations, FreeGen,
       NoConn, KeySourceTypeOK, serverVars, keyVars
<1>15. ASSUME NEW c \in Conns, KeysForKid(c), UNCHANGED serverVars PROVE
    ContextInv'
  BY KeySourceAssumption, LanServerAssumption, TypeParts, <1>15 DEF
       KeysForKid, ContextInv, HandlerInv, Handlers, Generations, FreeGen,
       NoConn, KeySourceTypeOK, serverVars, keyVars
<1>16. ASSUME NEW c \in Conns, Lead(c), UNCHANGED serverVars PROVE ContextInv'
  BY KeySourceAssumption, LanServerAssumption, TypeParts, <1>16 DEF Lead,
       ContextInv, HandlerInv, Handlers, Generations, FreeGen, NoConn,
       KeySourceTypeOK, serverVars, keyVars
<1>17. ASSUME NEW c \in Conns, Follow(c), UNCHANGED serverVars PROVE
    ContextInv'
  BY KeySourceAssumption, LanServerAssumption, TypeParts, <1>17 DEF Follow,
       ContextInv, HandlerInv, Handlers, Generations, FreeGen, NoConn,
       KeySourceTypeOK, serverVars, keyVars
<1>18. ASSUME NEW c \in Conns, Respond(c), UNCHANGED serverVars PROVE
    ContextInv'
  BY KeySourceAssumption, LanServerAssumption, TypeParts, <1>18 DEF Respond,
       ContextInv, HandlerInv, Handlers, Generations, FreeGen, NoConn,
       KeySourceTypeOK, serverVars, keyVars
<1>19. ASSUME NEW c \in Conns, FetchOK(c), UNCHANGED serverVars PROVE
    ContextInv'
  BY KeySourceAssumption, LanServerAssumption, TypeParts, <1>19 DEF FetchOK,
       Store, ContextInv, HandlerInv, Handlers, Generations, FreeGen, NoConn,
       KeySourceTypeOK, serverVars, keyVars
<1>20. ASSUME NEW c \in Conns, FetchFails(c), UNCHANGED serverVars PROVE
    ContextInv'
  BY KeySourceAssumption, LanServerAssumption, TypeParts, <1>20 DEF
       FetchFails, Store, ContextInv, HandlerInv, Handlers, Generations,
       FreeGen, NoConn, KeySourceTypeOK, serverVars, keyVars
<1>21. ASSUME NEW c \in Conns, Bail(c), UNCHANGED serverVars PROVE ContextInv'
  BY KeySourceAssumption, LanServerAssumption, TypeParts, <1>21 DEF Bail,
       ContextInv, HandlerInv, Handlers, Generations, FreeGen, NoConn,
       KeySourceTypeOK, serverVars, keyVars
<1>22. CASE CacheExpires /\ UNCHANGED serverVars
  BY KeySourceAssumption, LanServerAssumption, TypeParts, <1>22 DEF
       CacheExpires, ContextInv, HandlerInv, Handlers, Generations, FreeGen,
       NoConn, KeySourceTypeOK, serverVars, keyVars
<1>23. CASE LimitEnds /\ UNCHANGED serverVars
  BY KeySourceAssumption, LanServerAssumption, TypeParts, <1>23 DEF LimitEnds,
       ContextInv, HandlerInv, Handlers, Generations, FreeGen, NoConn,
       KeySourceTypeOK, serverVars, keyVars
<1>24. CASE Rotate /\ UNCHANGED serverVars
  BY KeySourceAssumption, LanServerAssumption, TypeParts, <1>24 DEF Rotate,
       ContextInv, HandlerInv, Handlers, Generations, FreeGen, NoConn,
       KeySourceTypeOK, serverVars, keyVars
<1>25. CASE UNCHANGED vars
  BY KeySourceAssumption, LanServerAssumption, TypeParts, <1>25 DEF vars,
       ContextInv, HandlerInv, Handlers, Generations, FreeGen, NoConn,
       KeySourceTypeOK, serverVars, keyVars
<1> QED
  BY <1>1, <1>2, <1>3, <1>4, <1>5, <1>6, <1>7, <1>8, <1>9, <1>10, <1>11,
       <1>12, <1>13, <1>14, <1>15, <1>16, <1>17, <1>18, <1>19, <1>20, <1>21,
       <1>22, <1>23, <1>24, <1>25 DEF Next, Enters, Handles, Verification,
       Verifies, Elapses

(***************************************************************************)
(* No generation runs on for nobody: a disconnect, a stop of the server    *)
(* and an interrupt each cancel what they have to, for every number of     *)
(* connections and generations (routeInner, CancelGeneration, Stop).       *)
(***************************************************************************)
THEOREM OrphansCorrect == Spec => []NoOrphans
<1>1. Init => ContextInv
  BY DEF Init, KeySourceInit, ContextInv, FreeGen
<1>2. CoreInv /\ ContextInv /\ [Next]_vars => ContextInv'
  BY ContextStep DEF CoreInv
<1>3. ContextInv => NoOrphans
  BY DEF ContextInv, NoOrphans
<1> QED
  BY <1>1, <1>2, <1>3, CoreCorrect, PTL DEF Spec

-----------------------------------------------------------------------------
(***************************************************************************)
(* Known kids.                                                             *)
(***************************************************************************)
LEMMA KidStep ==
    TypeOK /\ LeadInv /\ KidInv /\ [Next]_vars => KidInv'
<1> SUFFICES ASSUME TypeOK, LeadInv, KidInv, [Next]_vars
             PROVE  KidInv'
  OBVIOUS
<1>1. CASE Start
  BY KeySourceAssumption, LanServerAssumption, <1>1 DEF Start, KidInv, TypeOK,
       KeySourceTypeOK, serverVars, keyVars
<1>2. CASE Stop
  BY KeySourceAssumption, LanServerAssumption, <1>2 DEF Stop, Over, Untrack,
       Of, KidInv, TypeOK, KeySourceTypeOK, serverVars, keyVars
<1>3. ASSUME NEW c \in Conns, Reserve(c) PROVE KidInv'
  BY KeySourceAssumption, LanServerAssumption, <1>3 DEF Reserve, KidInv,
       TypeOK, KeySourceTypeOK, serverVars, keyVars
<1>4. ASSUME NEW c \in Conns, Refuse(c) PROVE KidInv'
  BY KeySourceAssumption, LanServerAssumption, <1>4 DEF Refuse, Counts, Count,
       KidInv, TypeOK, KeySourceTypeOK, serverVars, keyVars
<1>5. ASSUME NEW c \in Conns, AcceptFails(c) PROVE KidInv'
  BY KeySourceAssumption, LanServerAssumption, <1>5 DEF AcceptFails, Counts,
       Count, KidInv, TypeOK, KeySourceTypeOK, serverVars, keyVars
<1>6. ASSUME NEW c \in Conns, Accept(c) PROVE KidInv'
  BY KeySourceAssumption, LanServerAssumption, <1>6 DEF Accept, Moves, KidInv,
       TypeOK, KeySourceTypeOK, serverVars, keyVars
<1>7. ASSUME NEW c \in Conns, Read(c) PROVE KidInv'
  BY KeySourceAssumption, LanServerAssumption, <1>7 DEF Read, Moves, KidInv,
       TypeOK, KeySourceTypeOK, serverVars, keyVars
<1>8. ASSUME NEW c \in Conns, Leave(c) PROVE KidInv'
  BY KeySourceAssumption, LanServerAssumption, <1>8 DEF Leave, Counts, Count,
       Over, Of, KidInv, TypeOK, KeySourceTypeOK, serverVars, keyVars
<1>9. ASSUME NEW c \in Conns, NEW k \in Kids, Hello(c, k) PROVE KidInv'
  <2> DEFINE r == [NoVerification EXCEPT !.kid = k, !.sure = Holds(keys, k),
                                          !.cached = keys]
              ask == [r EXCEPT !.at = "refresh"]
  <2>1. Holds(keys, k) \in BOOLEAN /\ keys \in 0..MaxVersion
    BY TypeParts, KeySourceAssumption DEF Holds, KeySourceTypeOK
  <2>2. r \in Verifications
    BY <2>1, Begins
  <2>3. r.kid = k /\ r.why = "keys" /\ r.cached = keys /\ (r.sure => Holds(keys, k))
    BY DEF NoVerification
  <2>4. /\ ask.at = "refresh" /\ ask.kid = r.kid /\ ask.why = r.why
        /\ ask.cached = r.cached /\ ask.sure = r.sure
    BY <2>2 DEF Verifications
  <2>5. v' = [v EXCEPT ![c] = IF keys # 0 /\ fresh THEN Answered(r, keys) ELSE ask]
    BY <1>9 DEF Hello, Keys
  <2> HIDE DEF r, ask
  <2>6. \A d \in Conns \ {c} : v'[d] = v[d]
    BY <2>5, VerificationType, TypeParts
  <2>7. CASE keys # 0 /\ fresh
    <3>1. v'[c] = Answered(r, keys)
      BY <2>5, <2>7, VerificationType, TypeParts
    <3>2. Answered(r, keys).sure => r.sure /\ ~Holds(keys, r.kid)
      BY <2>2, <2>7, AnsweredFields
    <3>3. ~v'[c].sure
      BY <2>3, <3>1, <3>2
    <3> QED
      BY <1>9, <2>6, <3>3 DEF Hello, Keys, KidInv
  <2>8. CASE ~(keys # 0 /\ fresh)
    <3>1. v'[c] = ask
      BY <2>5, <2>8, VerificationType, TypeParts
    <3>2. UNCHANGED keys
      BY <1>9 DEF Hello, Keys
    <3> QED
      BY <2>3, <2>4, <2>6, <3>1, <3>2 DEF KidInv
  <2> QED
    BY <2>7, <2>8
<1>10. ASSUME NEW c \in Conns, Answer(c) PROVE KidInv'
  <2>1. v'[c].sure = FALSE /\ \A d \in Conns \ {c} : v'[d] = v[d]
    BY <1>10, NoVerificationType, VerificationType, TypeParts DEF Answer
  <2> QED
    BY <1>10, <2>1 DEF Answer, KidInv
<1>11. ASSUME NEW c \in Conns, NEW g \in Gens, Message(c, g) PROVE KidInv'
  BY KeySourceAssumption, LanServerAssumption, <1>11 DEF Message, Begin,
       KidInv, TypeOK, KeySourceTypeOK, serverVars, keyVars
<1>12. ASSUME NEW c \in Conns, Interrupt(c) PROVE KidInv'
  BY KeySourceAssumption, LanServerAssumption, <1>12 DEF Interrupt, KidInv,
       TypeOK, KeySourceTypeOK, serverVars, keyVars
<1>13. ASSUME NEW c \in Conns, OtherFrame(c) PROVE KidInv'
  BY KeySourceAssumption, LanServerAssumption, <1>13 DEF OtherFrame, Moves,
       KidInv, TypeOK, KeySourceTypeOK, serverVars, keyVars
<1>14. ASSUME NEW g \in Gens, Finish(g) PROVE KidInv'
  BY KeySourceAssumption, LanServerAssumption, <1>14 DEF Finish, Over,
       Untrack, KidInv, TypeOK, KeySourceTypeOK, serverVars, keyVars
<1>15. ASSUME NEW c \in Conns, KeysForKid(c), UNCHANGED serverVars PROVE
    KidInv'
  <2>1. "ok" \in Verdicts /\ "unknown" \in Verdicts /\ v[c] \in Verifications
           /\ ~v[c].sure
    BY <1>15, VerificationType, TypeParts DEF Verdicts, KeysForKid, KidInv
  <2>2. ~ForceRefresh(v[c]).sure
    BY <2>1 DEF ForceRefresh, Verifications
  <2>3. ~v'[c].sure /\ \A d \in Conns \ {c} : v'[d] = v[d]
    BY <1>15, <2>1, <2>2, VerdictFields, VerificationType, TypeParts
      DEF KeysForKid, Miss
  <2> QED
    BY <1>15, <2>3 DEF KeysForKid, KidInv
<1>16. ASSUME NEW c \in Conns, Lead(c), UNCHANGED serverVars PROVE KidInv'
  <2>1. \A d \in Conns : /\ v'[d].sure = v[d].sure /\ v'[d].kid = v[d].kid
                         /\ v'[d].why = v[d].why
    BY <1>16, VerificationType, TypeParts DEF Lead, Verifications
  <2>2. v'[c].at = "fetch" /\ v'[c].cached = v[c].cached /\ \A d \in Conns \ {c} : v'[d] = v[d]
    BY <1>16, VerificationType, TypeParts DEF Lead, Verifications
  <2> QED
    BY <1>16, <2>1, <2>2 DEF Lead, KidInv
<1>17. ASSUME NEW c \in Conns, Follow(c), UNCHANGED serverVars PROVE KidInv'
  <2>1. \A d \in Conns : /\ v'[d].sure = v[d].sure /\ v'[d].kid = v[d].kid
                         /\ v'[d].why = v[d].why
    BY <1>17, VerificationType, TypeParts DEF Follow, Verifications
  <2>2. v'[c].at = "wait" /\ v'[c].cached = v[c].cached /\ \A d \in Conns \ {c} : v'[d] = v[d]
    BY <1>17, VerificationType, TypeParts DEF Follow, Verifications
  <2> QED
    BY <1>17, <2>1, <2>2 DEF Follow, KidInv
<1>18. ASSUME NEW c \in Conns, Respond(c), UNCHANGED serverVars PROVE KidInv'
  <2>1. \A d \in Conns : /\ v'[d].sure = v[d].sure /\ v'[d].kid = v[d].kid
                         /\ v'[d].why = v[d].why
    BY <1>18, VerificationType, TypeParts DEF Respond, Verifications
  <2>2. v'[c].at = "landed" /\ \A d \in Conns \ {c} : v'[d] = v[d]
    BY <1>18, VerificationType, TypeParts DEF Respond, Verifications
  <2> QED
    BY <1>18, <2>1, <2>2, ZenonT(60) DEF Respond, KidInv
<1>19. ASSUME NEW c \in Conns, FetchOK(c), UNCHANGED serverVars PROVE KidInv'
  <2>1. Store(c, v[c].cached) /\ inflight = c /\ v[c].at = "landed"
           /\ v[c].cached # 0 /\ keys' = v[c].cached
    BY <1>19 DEF FetchOK, LeadInv, Store
  <2> SUFFICES ASSUME NEW d \in Conns, v'[d].sure
               PROVE  /\ Holds(keys', v'[d].kid) /\ v'[d].why = "keys"
                      /\ v'[d].at \in {"refresh", "wait", "fetch", "landed"}
                      /\ v'[d].at # "landed" => Holds(v'[d].cached, v'[d].kid)
    BY DEF KidInv
  <2>2. v[d].sure /\ Holds(keys', v[d].kid)
    BY <2>1, StoreFields, TypeParts
  <2>3. CASE Told(d, c, v[c].cached)
    BY <2>1, <2>2, <2>3, StoreFields, TypeParts DEF KidInv, Told
  <2>4. CASE ~Told(d, c, v[c].cached)
    BY <2>1, <2>2, <2>4, StoreFields, TypeParts DEF KidInv
  <2> QED
    BY <2>3, <2>4
<1>20. ASSUME NEW c \in Conns, FetchFails(c), UNCHANGED serverVars PROVE
    KidInv'
  <2>1. Store(c, 0) /\ inflight = c /\ v[c].at = "fetch"
           /\ keys' = keys
    BY <1>20 DEF FetchFails, LeadInv, Store
  <2> SUFFICES ASSUME NEW d \in Conns, v'[d].sure
               PROVE  /\ Holds(keys', v'[d].kid) /\ v'[d].why = "keys"
                      /\ v'[d].at \in {"refresh", "wait", "fetch", "landed"}
                      /\ v'[d].at # "landed" => Holds(v'[d].cached, v'[d].kid)
    BY DEF KidInv
  <2>2. v[d].sure /\ Holds(keys', v[d].kid)
    BY <2>1, StoreFields, TypeParts
  <2>3. CASE Told(d, c, 0)
    BY <2>1, <2>2, <2>3, StoreFields, TypeParts DEF KidInv, Told
  <2>4. CASE ~Told(d, c, 0)
    BY <2>1, <2>2, <2>4, StoreFields, TypeParts DEF KidInv
  <2> QED
    BY <2>3, <2>4
<1>21. ASSUME NEW c \in Conns, Bail(c), UNCHANGED serverVars PROVE KidInv'
  <2>1. v[c] \in Verifications /\ v'[c] = Answered(v[c], 0)
           /\ \A d \in Conns \ {c} : v'[d] = v[d]
    BY <1>21, VerificationType, TypeParts DEF Bail
  <2>2. ~v'[c].sure
    BY <1>21, <2>1, AnsweredFields DEF Bail, KidInv
  <2> QED
    BY <1>21, <2>1, <2>2 DEF Bail, KidInv
<1>22. CASE CacheExpires /\ UNCHANGED serverVars
  BY KeySourceAssumption, LanServerAssumption, <1>22 DEF CacheExpires, KidInv,
       TypeOK, KeySourceTypeOK, serverVars, keyVars
<1>23. CASE LimitEnds /\ UNCHANGED serverVars
  BY KeySourceAssumption, LanServerAssumption, <1>23 DEF LimitEnds, KidInv,
       TypeOK, KeySourceTypeOK, serverVars, keyVars
<1>24. CASE Rotate /\ UNCHANGED serverVars
  BY KeySourceAssumption, LanServerAssumption, <1>24 DEF Rotate, KidInv,
       TypeOK, KeySourceTypeOK, serverVars, keyVars
<1>25. CASE UNCHANGED vars
  BY KeySourceAssumption, LanServerAssumption, <1>25 DEF vars, KidInv, TypeOK,
       KeySourceTypeOK, serverVars, keyVars
<1> QED
  BY <1>1, <1>2, <1>3, <1>4, <1>5, <1>6, <1>7, <1>8, <1>9, <1>10, <1>11,
       <1>12, <1>13, <1>14, <1>15, <1>16, <1>17, <1>18, <1>19, <1>20, <1>21,
       <1>22, <1>23, <1>24, <1>25 DEF Next, Enters, Handles, Verification,
       Verifies, Elapses

(***************************************************************************)
(* "A transient control plane outage must not break pairing for an         *)
(* already-known signing key", for every number of connections: Keys falls *)
(* back to what it had read, and KeysForKid looks into the cache again.    *)
(***************************************************************************)
THEOREM KnownKidCorrect == Spec => []KnownKid
<1>1. Init => KidInv
  BY NoVerificationType DEF Init, KeySourceInit, KidInv
<1>2. CoreInv /\ KidInv /\ [Next]_vars => KidInv'
  BY KidStep DEF CoreInv
<1>3. KidInv => KnownKid
  BY DEF KidInv, KnownKid
<1> QED
  BY <1>1, <1>2, <1>3, CoreCorrect, PTL DEF Spec

-----------------------------------------------------------------------------
(***************************************************************************)
(* Forced refreshes.                                                       *)
(***************************************************************************)
LEMMA ForcedFinite ==
    ASSUME NEW F \in SUBSET Conns
    PROVE  /\ IsFiniteSet(F) /\ Cardinality(F) \in Nat
           /\ Cardinality(Conns) \in Nat /\ Cardinality(F) <= Cardinality(Conns)
  BY LanServerAssumption, FS_Subset, FS_CardinalityType

\* A step that starts no fetch, and after which nobody else is past the check
\* while the limit is on.
LEMMA StormStays ==
    ASSUME KeySourceTypeOK, StormInv, UNCHANGED <<limited, burst>>,
           limited => Forced' \subseteq Forced
    PROVE  StormInv'
<1>1. CASE limited
  <2>1. Forced \in SUBSET Conns /\ Forced' \in SUBSET Forced
    BY <1>1 DEF Forced
  <2>2. IsFiniteSet(Forced) /\ Cardinality(Forced) \in Nat
           /\ Cardinality(Conns) \in Nat
    BY <2>1, ForcedFinite
  <2>3. Cardinality(Forced') <= Cardinality(Forced) /\ Cardinality(Forced') \in Nat
    BY <2>1, <2>2, FS_Subset, FS_CardinalityType
  <2> QED
    BY <1>1, <2>2, <2>3 DEF StormInv, KeySourceTypeOK
<1>2. CASE ~limited
  BY <1>2 DEF StormInv
<1> QED
  BY <1>1, <1>2

\* The leader is no longer one of those past the check.
LEMMA LeadCounts ==
    ASSUME KeySourceTypeOK, StormInv, NEW c \in Conns, Lead(c)
    PROVE  StormInv'
<1>1. limited' = TRUE /\ burst' = IF v[c].why = "kid" THEN burst + 1 ELSE burst
  BY DEF Lead
<1>2. v' = [v EXCEPT ![c].at = "fetch"] /\ v[c].at = "refresh"
  BY DEF Lead
<1>3. Forced' = Forced \ {c}
  BY <1>2, VerificationType DEF Forced, Verifications
<1>4. c \in Forced <=> v[c].why = "kid"
  BY <1>2 DEF Forced
<1>5. /\ IsFiniteSet(Forced) /\ Cardinality(Forced) \in Nat
      /\ Cardinality(Conns) \in Nat
  BY ForcedFinite DEF Forced
<1>6. Cardinality(Forced') = IF c \in Forced THEN Cardinality(Forced) - 1
                             ELSE Cardinality(Forced)
  BY <1>3, <1>5, FS_RemoveElement
<1>7. CASE limited
  BY <1>1, <1>4, <1>5, <1>6, <1>7 DEF StormInv, KeySourceTypeOK
<1>8. CASE ~limited
  <2>1. Forced' \in SUBSET (Conns \ {c})
    BY <1>3 DEF Forced
  <2>2. IsFiniteSet(Conns \ {c}) /\ Cardinality(Conns \ {c}) = Cardinality(Conns) - 1
    BY LanServerAssumption, FS_RemoveElement
  <2>3. Cardinality(Forced') <= Cardinality(Conns) - 1
    BY <2>1, <2>2, FS_Subset
  <2>4. burst = 0 /\ Cardinality(Forced') \in Nat
    BY <1>5, <1>8, <2>1, <2>2, FS_Subset, FS_CardinalityType DEF StormInv
  <2> QED
    BY <1>1, <1>5, <2>3, <2>4 DEF StormInv
<1> QED
  BY <1>7, <1>8

LEMMA StormStep ==
    TypeOK /\ StormInv /\ [Next]_vars => StormInv'
<1> SUFFICES ASSUME TypeOK, StormInv, [Next]_vars
             PROVE  StormInv'
  OBVIOUS
<1>1. CASE Start
  BY StormStays, TypeParts, <1>1 DEF Start, Forced, serverVars, keyVars
<1>2. CASE Stop
  BY StormStays, TypeParts, <1>2 DEF Stop, Over, Untrack, Of, Forced,
       serverVars, keyVars
<1>3. ASSUME NEW c \in Conns, Reserve(c) PROVE StormInv'
  BY StormStays, TypeParts, <1>3 DEF Reserve, Forced, serverVars, keyVars
<1>4. ASSUME NEW c \in Conns, Refuse(c) PROVE StormInv'
  BY StormStays, TypeParts, <1>4 DEF Refuse, Counts, Count, Forced,
       serverVars, keyVars
<1>5. ASSUME NEW c \in Conns, AcceptFails(c) PROVE StormInv'
  BY StormStays, TypeParts, <1>5 DEF AcceptFails, Counts, Count, Forced,
       serverVars, keyVars
<1>6. ASSUME NEW c \in Conns, Accept(c) PROVE StormInv'
  BY StormStays, TypeParts, <1>6 DEF Accept, Moves, Forced, serverVars,
       keyVars
<1>7. ASSUME NEW c \in Conns, Read(c) PROVE StormInv'
  BY StormStays, TypeParts, <1>7 DEF Read, Moves, Forced, serverVars, keyVars
<1>8. ASSUME NEW c \in Conns, Leave(c) PROVE StormInv'
  BY StormStays, TypeParts, <1>8 DEF Leave, Counts, Count, Over, Of, Forced,
       serverVars, keyVars
<1>9. ASSUME NEW c \in Conns, NEW k \in Kids, Hello(c, k) PROVE StormInv'
  <2> DEFINE r == [NoVerification EXCEPT !.kid = k, !.sure = Holds(keys, k),
                                          !.cached = keys]
              ask == [r EXCEPT !.at = "refresh"]
  <2>1. Holds(keys, k) \in BOOLEAN /\ keys \in 0..MaxVersion
    BY TypeParts, KeySourceAssumption DEF Holds, KeySourceTypeOK
  <2>2. r \in Verifications
    BY <2>1, Begins
  <2>3. r.why = "keys"
    BY DEF NoVerification
  <2>4. ask.why = r.why
    BY <2>2 DEF Verifications
  <2>5. v' = [v EXCEPT ![c] = IF keys # 0 /\ fresh THEN Answered(r, keys) ELSE ask]
    BY <1>9 DEF Hello, Keys
  <2> HIDE DEF r, ask
  <2>6. \A d \in Conns \ {c} : v'[d] = v[d]
    BY <2>5, VerificationType, TypeParts
  <2>7. v'[c].at # "refresh" \/ v'[c].why = "keys"
    BY <2>2, <2>3, <2>4, <2>5, AnsweredFields, VerificationType, TypeParts
      DEF Verdicts
  <2>8. Forced' \subseteq Forced
    BY <2>6, <2>7 DEF Forced
  <2> QED
    BY <1>9, <2>8, StormStays, TypeParts DEF Hello, Keys
<1>10. ASSUME NEW c \in Conns, Answer(c) PROVE StormInv'
  <2>1. v'[c].at = "idle" /\ \A d \in Conns \ {c} : v'[d] = v[d]
    BY <1>10, NoVerificationType, VerificationType, TypeParts DEF Answer
  <2>2. Forced' \subseteq Forced
    BY <2>1 DEF Forced
  <2> QED
    BY <1>10, <2>2, StormStays, TypeParts DEF Answer
<1>11. ASSUME NEW c \in Conns, NEW g \in Gens, Message(c, g) PROVE StormInv'
  BY StormStays, TypeParts, <1>11 DEF Message, Begin, Forced, serverVars,
       keyVars
<1>12. ASSUME NEW c \in Conns, Interrupt(c) PROVE StormInv'
  BY StormStays, TypeParts, <1>12 DEF Interrupt, Forced, serverVars, keyVars
<1>13. ASSUME NEW c \in Conns, OtherFrame(c) PROVE StormInv'
  BY StormStays, TypeParts, <1>13 DEF OtherFrame, Moves, Forced, serverVars,
       keyVars
<1>14. ASSUME NEW g \in Gens, Finish(g) PROVE StormInv'
  BY StormStays, TypeParts, <1>14 DEF Finish, Over, Untrack, Forced,
       serverVars, keyVars
<1>15. ASSUME NEW c \in Conns, KeysForKid(c), UNCHANGED serverVars PROVE
    StormInv'
  <2>1. "ok" \in Verdicts /\ "unknown" \in Verdicts /\ v[c] \in Verifications
    BY VerificationType, TypeParts DEF Verdicts
  <2>2. \A d \in Conns \ {c} : v'[d] = v[d]
    BY <1>15, VerificationType, TypeParts DEF KeysForKid
  <2>3. limited => v'[c].at # "refresh"
    BY <1>15, <2>1, VerdictFields, VerificationType, TypeParts
         DEF KeysForKid, Miss
  <2>4. limited => Forced' \subseteq Forced
    BY <2>2, <2>3 DEF Forced
  <2> QED
    BY <1>15, <2>4, StormStays, TypeParts DEF KeysForKid
<1>16. ASSUME NEW c \in Conns, Lead(c), UNCHANGED serverVars PROVE StormInv'
  BY <1>16, LeadCounts, TypeParts
<1>17. ASSUME NEW c \in Conns, Follow(c), UNCHANGED serverVars PROVE StormInv'
  <2>1. v'[c].at # "refresh" /\ \A d \in Conns \ {c} : v'[d] = v[d]
    BY <1>17, VerificationType, TypeParts DEF Follow, Verifications
  <2>2. Forced' \subseteq Forced
    BY <2>1 DEF Forced
  <2> QED
    BY <1>17, <2>2, StormStays, TypeParts DEF Follow
<1>18. ASSUME NEW c \in Conns, Respond(c), UNCHANGED serverVars PROVE
    StormInv'
  <2>1. v'[c].at # "refresh" /\ \A d \in Conns \ {c} : v'[d] = v[d]
    BY <1>18, VerificationType, TypeParts DEF Respond, Verifications
  <2>2. Forced' \subseteq Forced
    BY <2>1 DEF Forced
  <2> QED
    BY <1>18, <2>2, StormStays, TypeParts DEF Respond
<1>19. ASSUME NEW c \in Conns, FetchOK(c), UNCHANGED serverVars PROVE
    StormInv'
  <2>1. Store(c, v[c].cached)
    BY <1>19 DEF FetchOK
  <2>2. \A d \in Conns : \/ v'[d].at # "refresh"
                         \/ v'[d].at = v[d].at /\ v'[d].why = v[d].why
    BY <2>1, StoreFields, TypeParts DEF Verdicts
  <2>3. Forced' \subseteq Forced
    BY <2>2 DEF Forced
  <2> QED
    BY <1>19, <2>3, StormStays, TypeParts DEF FetchOK, Store
<1>20. ASSUME NEW c \in Conns, FetchFails(c), UNCHANGED serverVars PROVE
    StormInv'
  <2>1. Store(c, 0)
    BY <1>20 DEF FetchFails
  <2>2. \A d \in Conns : \/ v'[d].at # "refresh"
                         \/ v'[d].at = v[d].at /\ v'[d].why = v[d].why
    BY <2>1, StoreFields, TypeParts DEF Verdicts
  <2>3. Forced' \subseteq Forced
    BY <2>2 DEF Forced
  <2> QED
    BY <1>20, <2>3, StormStays, TypeParts DEF FetchFails, Store
<1>21. ASSUME NEW c \in Conns, Bail(c), UNCHANGED serverVars PROVE StormInv'
  <2>1. v'[c].at # "refresh" /\ \A d \in Conns \ {c} : v'[d] = v[d]
    BY <1>21, AnsweredFields, VerificationType, TypeParts DEF Bail, Verdicts
  <2>2. Forced' \subseteq Forced
    BY <2>1 DEF Forced
  <2> QED
    BY <1>21, <2>2, StormStays, TypeParts DEF Bail
<1>22. CASE CacheExpires /\ UNCHANGED serverVars
  BY StormStays, TypeParts, <1>22 DEF CacheExpires, Forced, serverVars,
       keyVars
<1>23. CASE LimitEnds /\ UNCHANGED serverVars
  BY <1>23 DEF LimitEnds, StormInv
<1>24. CASE Rotate /\ UNCHANGED serverVars
  BY StormStays, TypeParts, <1>24 DEF Rotate, Forced, serverVars, keyVars
<1>25. CASE UNCHANGED vars
  BY StormStays, TypeParts, <1>25 DEF vars, Forced, serverVars, keyVars
<1> QED
  BY <1>1, <1>2, <1>3, <1>4, <1>5, <1>6, <1>7, <1>8, <1>9, <1>10, <1>11,
       <1>12, <1>13, <1>14, <1>15, <1>16, <1>17, <1>18, <1>19, <1>20, <1>21,
       <1>22, <1>23, <1>24, <1>25 DEF Next, Enters, Handles, Verification,
       Verifies, Elapses

(***************************************************************************)
(* "A stream of tokens carrying a bogus kid cannot turn into a fetch       *)
(* storm": however many connections name unknown kids, between two ends of *)
(* the limit there are no more forced refreshes than connections           *)
(* (KeysForKid, refresh).                                                  *)
(***************************************************************************)
THEOREM StormCorrect == Spec => []NoFetchStorm
<1>1. Init => StormInv
  BY DEF Init, KeySourceInit, StormInv
<1>2. CoreInv /\ StormInv /\ [Next]_vars => StormInv'
  BY StormStep DEF CoreInv
<1>3. CoreInv /\ StormInv => NoFetchStorm
  <2> DEFINE F == {c \in Conns : limited /\ v[c].at = "refresh" /\ v[c].why = "kid"}
  <2> SUFFICES ASSUME StormInv PROVE burst + Cardinality(F) <= Cardinality(Conns)
    BY DEF NoFetchStorm
  <2>1. CASE limited
    <3>1. F = Forced
      BY <2>1 DEF Forced
    <3> QED
      BY <2>1, <3>1 DEF StormInv
  <2>2. CASE ~limited
    <3>1. F = {} /\ burst = 0
      BY <2>2 DEF StormInv
    <3>2. Cardinality(F) = 0
      BY <3>1, FS_EmptySet
    <3>3. Cardinality(Conns) \in Nat
      BY FS_CardinalityType, LanServerAssumption
    <3> HIDE DEF F
    <3> QED
      BY <3>1, <3>2, <3>3
  <2> QED
    BY <2>1, <2>2
<1> QED
  BY <1>1, <1>2, <1>3, CoreCorrect, PTL DEF Spec
=============================================================================
