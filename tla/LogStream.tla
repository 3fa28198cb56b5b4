----------------------------- MODULE LogStream ------------------------------
(***************************************************************************)
(* The live log console: the recorder keeps the last lines in a ring and   *)
(* fans new ones out to subscribers without ever blocking the logger       *)
(* (internal/logging/recorder.go), and a stream sends the backlog and then *)
(* the live records to a browser (internal/adminapi/logs.go).              *)
(*                                                                         *)
(* A record is its sequence number.  Subscribers do not see each other, so *)
(* one console stands for all; it may be closed and opened again.          *)
(***************************************************************************)
EXTENDS Naturals, Sequences, FiniteSets

CONSTANTS Capacity,  \* of the ring
          Buffer,    \* of a subscriber's channel
          MaxSeq     \* bound: records logged

ASSUME LogAssumption ==
    Capacity \in Nat \ {0} /\ Buffer \in Nat \ {0} /\ MaxSeq \in Nat

VARIABLES
    seq,       \* last sequence number
    ring,      \* the array; 0 is a slot not written yet
    next,      \* the write cursor
    filled,    \* slots written
    ch,        \* the subscriber's channel
    dropped,   \* records not sent since the last notice
    console,   \* where the handler is
    todo,      \* what is left to send of the backlog it read
    lastSent,  \* highest sequence number sent
    shown,     \* records the browser received
    from,      \* the first record it should have received
    admitted,  \* drops the browser was told of
    notices,   \* the notices that told it
    behind     \* a record was dropped for this console

recorderVars == <<seq, ring, next, filled>>
subVars      == <<ch, dropped, behind>>
streamVars   == <<console, todo, lastSent, shown, from, admitted, notices>>
vars == <<recorderVars, subVars, streamVars>>

Seqs == 1..MaxSeq

\* What a channel carries: a record, or a notice of some drops under the
\* sequence number of the record it precedes.
Entry == [seq: Seqs, notice: 0..MaxSeq]
Rec(n) == [seq |-> n, notice |-> 0]
Notice(n, d) == [seq |-> n, notice |-> d]

TypeOK ==
    /\ seq \in 0..MaxSeq
    /\ ring \in [0..Capacity - 1 -> 0..MaxSeq]
    /\ next \in 0..Capacity - 1 /\ filled \in 0..Capacity
    /\ ch \in Seq(Entry) /\ Len(ch) <= Buffer
    /\ dropped \in 0..MaxSeq /\ behind \in BOOLEAN
    /\ console \in {"closed", "subscribed", "backlog", "live"}
    /\ todo \in Seq(Seqs) /\ (todo # <<>> => console = "backlog")
    /\ lastSent \in 0..MaxSeq
    /\ shown \in Seq(Seqs)
    /\ from \in 1..MaxSeq + 1
    /\ admitted \in Nat /\ notices \in Nat

Init ==
    /\ seq = 0 /\ ring = [i \in 0..Capacity - 1 |-> 0] /\ next = 0 /\ filled = 0
    /\ ch = <<>> /\ dropped = 0 /\ behind = FALSE
    /\ console = "closed" /\ todo = <<>> /\ lastSent = 0
    /\ shown = <<>> /\ from = 1 /\ admitted = 0 /\ notices = 0

-----------------------------------------------------------------------------
(***************************************************************************)
(* The recorder.                                                           *)
(***************************************************************************)
Room(c, n) == Len(c) + n <= Buffer

\* A mutant: drops are not counted.
SendSilently(n) ==
    /\ ch' = IF Room(ch, 1) THEN Append(ch, Rec(n)) ELSE ch
    /\ UNCHANGED dropped
    /\ behind' = (behind \/ ~Room(ch, 1))

\* send: a drop is confessed first; a record that does not fit is dropped.
Send(n) ==
    /\ CASE dropped = 0 /\ Room(ch, 1) ->
              ch' = Append(ch, Rec(n)) /\ dropped' = 0
         [] dropped > 0 /\ Room(ch, 2) ->
              ch' = ch \o <<Notice(n, dropped), Rec(n)>> /\ dropped' = 0
         [] dropped > 0 /\ Room(ch, 1) /\ ~Room(ch, 2) ->
              ch' = Append(ch, Notice(n, dropped)) /\ dropped' = 1
         [] OTHER ->
              ch' = ch /\ dropped' = dropped + 1
    /\ behind' = (behind \/ dropped' > 0)

\* The console is in r.subs.
Subscribed == console # "closed"

Cursor == (next + 1) % Capacity

\* Write, by any goroutine that logs.
Write ==
    /\ seq < MaxSeq
    /\ seq' = seq + 1
    /\ ring' = [ring EXCEPT ![next] = seq + 1]
    /\ next' = Cursor
    /\ filled' = IF filled < Capacity THEN filled + 1 ELSE filled
    /\ IF Subscribed THEN Send(seq + 1) ELSE UNCHANGED subVars
    /\ UNCHANGED streamVars

\* A mutant: the ring is read from its first slot.
BacklogFromZero == [i \in 1..filled |-> ring[i - 1]]

\* Backlog: oldest first, from the write cursor once the ring is full.
Backlog ==
    LET start == IF filled = Capacity THEN next ELSE 0
    IN  [i \in 1..filled |-> ring[(start + i - 1) % Capacity]]

-----------------------------------------------------------------------------
(***************************************************************************)
(* GET /v1/logs/stream.                                                    *)
(***************************************************************************)
\* Subscribe comes first ...
Subscribe ==
    /\ console = "closed" /\ console' = "subscribed"
    /\ UNCHANGED <<recorderVars, subVars, todo, lastSent, shown, from, admitted,
                   notices>>

\* ... and then the backlog.
ReadBacklog ==
    /\ console = "subscribed" /\ console' = "backlog"
    /\ todo' = Backlog
    /\ from' = seq - filled + 1
    /\ UNCHANGED <<recorderVars, subVars, lastSent, shown, admitted, notices>>

\* The backlog is written record by record.
SendBacklog ==
    /\ console = "backlog" /\ todo # <<>>
    /\ lastSent' = Head(todo)
    /\ shown' = Append(shown, Head(todo))
    /\ todo' = Tail(todo)
    /\ UNCHANGED <<recorderVars, subVars, console, from, admitted, notices>>

GoLive ==
    /\ console = "backlog" /\ todo = <<>>
    /\ console' = "live"
    /\ UNCHANGED <<recorderVars, subVars, todo, lastSent, shown, from, admitted,
                   notices>>

\* A mutant: what the backlog delivered is not filtered out.
StaleNever == FALSE

\* Already delivered from the backlog.
Stale == Head(ch).seq <= lastSent

SkipLive ==
    /\ console = "live" /\ ch # <<>> /\ Stale
    /\ ch' = Tail(ch)
    /\ UNCHANGED <<recorderVars, dropped, behind, streamVars>>

SendLive ==
    /\ console = "live" /\ ch # <<>> /\ ~Stale
    /\ ch' = Tail(ch)
    /\ lastSent' = Head(ch).seq
    /\ IF Head(ch).notice = 0
       THEN /\ shown' = Append(shown, Head(ch).seq)
            /\ UNCHANGED <<admitted, notices>>
       ELSE /\ admitted' = admitted + Head(ch).notice
            /\ notices' = notices + 1
            /\ UNCHANGED shown
    /\ UNCHANGED <<recorderVars, dropped, behind, console, todo, from>>

\* A write or a keepalive fails, or the request is cancelled: the subscription
\* is cancelled.
Disconnect ==
    /\ console # "closed"
    /\ ch' = <<>> /\ dropped' = 0 /\ behind' = FALSE
    /\ console' = "closed" /\ todo' = <<>> /\ lastSent' = 0
    /\ shown' = <<>> /\ from' = 1 /\ admitted' = 0 /\ notices' = 0
    /\ UNCHANGED recorderVars

Stream == ReadBacklog \/ SendBacklog \/ GoLive \/ SkipLive \/ SendLive

Next == Write \/ Subscribe \/ Stream \/ Disconnect

Spec == Init /\ [][Next]_vars

-----------------------------------------------------------------------------
Shown == {shown[i] : i \in DOMAIN shown}
Due   == from..seq

(***************************************************************************)
(* The ring's backlog is the last records, oldest first, also when it has  *)
(* wrapped around (Write, Backlog).                                        *)
(***************************************************************************)
BacklogIsTail ==
    Backlog = [i \in 1..filled |-> seq - filled + i]

(***************************************************************************)
(* A console shows each record once and in order, although the live        *)
(* records may repeat the tail of the backlog, and one that keeps up       *)
(* misses nothing: what is logged while it opens is in the backlog or in   *)
(* the channel (registerLogRoutes).                                        *)
(***************************************************************************)
ShownOnce ==
    /\ \A i \in 1..Len(shown) - 1 : shown[i] < shown[i + 1]
    /\ console = "live" /\ ~behind =>
           Due \subseteq Shown \cup {ch[i].seq : i \in DOMAIN ch}

(***************************************************************************)
(* A console that has caught up is told of its gaps, or will be by the     *)
(* next record: what it misses is no more than the drops it was told of,   *)
(* the drops counted for the next notice, and for each notice one record   *)
(* more, the one whose sequence number the notice borrows                  *)
(* (subscriber.send; the handler skips that record as already delivered).  *)
(***************************************************************************)
GapAnnounced ==
    console = "live" /\ ch = <<>> =>
        Cardinality(Due \ Shown) <= admitted + notices + dropped

(***************************************************************************)
(* What the repository says: drops are reported rather than swallowed, and *)
(* anything at or below the last record sent has been delivered.  Nothing  *)
(* is then missing but the drops that were told, or wait to be             *)
(* (subscriber, registerLogRoutes).                                        *)
(***************************************************************************)
NoSilentGap ==
    console = "live" /\ ch = <<>> =>
        Cardinality(Due \ Shown) <= admitted + dropped
=============================================================================
