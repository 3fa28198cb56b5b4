-------------------------- MODULE LogStreamProofs ---------------------------
(***************************************************************************)
(* Proofs about LogStream, for every capacity of the ring and of the       *)
(* channel and any number of records.                                      *)
(***************************************************************************)
EXTENDS LogStream, Integers, FiniteSetTheorems, SequenceTheorems, TLAPS

-----------------------------------------------------------------------------
(***************************************************************************)
(* The inductive invariants.                                               *)
(***************************************************************************)
\* The ring, slot by slot: behind the cursor the last records, and from it on,
\* once the ring is full, the ones before those.
RingInv ==
    /\ filled <= seq
    /\ filled < Capacity => next = filled /\ seq = filled
    /\ \A j \in 0..Capacity - 1 :
          /\ j < next => ring[j] = seq - next + j + 1
          /\ j >= next /\ filled = Capacity => ring[j] = seq - next - Capacity + j + 1

\* Entries are in order, and two have the same number only when they are a
\* notice and the record it precedes.
ChannelInv ==
    /\ \A i \in 1..Len(ch) : ch[i].seq <= seq
    /\ \A i, j \in 1..Len(ch) : i < j =>
          /\ ch[i].seq <= ch[j].seq
          /\ ch[i].notice = 0 \/ ch[j].notice > 0 => ch[i].seq < ch[j].seq
    /\ console = "closed" => ch = <<>> /\ dropped = 0 /\ behind = FALSE
    /\ ~behind => dropped = 0 /\ \A i \in 1..Len(ch) : ch[i].notice = 0

\* What was sent is in order and before what is left of the backlog.
OrderInv ==
    /\ console \in {"closed", "subscribed"} =>
          lastSent = 0 /\ shown = <<>> /\ admitted = 0 /\ notices = 0
    /\ lastSent <= seq
    /\ \A i \in 1..Len(todo) : lastSent < todo[i] /\ todo[i] <= seq
    /\ \A i, j \in 1..Len(todo) : i < j => todo[i] < todo[j]
    /\ \A i \in 1..Len(shown) : shown[i] <= lastSent
    /\ \A i \in 1..Len(shown) - 1 : shown[i] < shown[i + 1]

\* The last record the backlog delivers, or the last one sent.
Top == IF todo = <<>> THEN lastSent ELSE todo[Len(todo)]

Left == {todo[i] : i \in 1..Len(todo)}

\* The records in the channel that the handler will not skip: a notice makes
\* the record it precedes stale.
Pending ==
    {n \in Seqs : /\ n > Top
                  /\ \E i \in 1..Len(ch) : ch[i].seq = n
                  /\ \A i \in 1..Len(ch) : ch[i].seq = n => ch[i].notice = 0}

\* The records the console will not get.
Missed == Due \ (Shown \cup Left \cup Pending)

\* What a notice accounts for: the drops it admits to, and the record whose
\* number it takes.  A stale notice is skipped.
Weight(i) ==
    IF ch[i].seq > Top /\ ch[i].notice > 0 THEN ch[i].notice + 1 ELSE 0

\* acc[i] is what will have been accounted for after the i-th entry.
Account(acc) ==
    /\ acc \in [0..Len(ch) -> Nat]
    /\ acc[0] = admitted + notices
    /\ \A i \in 1..Len(ch) : acc[i] = acc[i - 1] + Weight(i)

Covers(acc) ==
    /\ dropped <= seq
    /\ console \in {"backlog", "live"} =>
          Cardinality(Missed) <= acc[Len(ch)] + dropped

\* Drops are admitted to, waiting to be, or counted for the next notice.
AccountInv == \E acc \in [0..Len(ch) -> Nat] : Account(acc) /\ Covers(acc)

\* A console that keeps up misses nothing.
MissInv == console \in {"backlog", "live"} /\ ~behind => Missed = {}

-----------------------------------------------------------------------------
(***************************************************************************)
(* The ring.                                                               *)
(***************************************************************************)
LEMMA Wraps ==
    ASSUME NEW c \in Nat \ {0}, NEW x \in 0..2 * c - 1
    PROVE  x % c = IF x < c THEN x ELSE x - c
  BY SMT

RecorderOK ==
    /\ seq \in 0..MaxSeq
    /\ ring \in [0..Capacity - 1 -> 0..MaxSeq]
    /\ next \in 0..Capacity - 1 /\ filled \in 0..Capacity

LEMMA RingStep ==
    ASSUME RecorderOK, RingInv, [Next]_vars
    PROVE  RecorderOK' /\ RingInv'
<1>1. CASE Write
  <2>1. /\ seq \in 0..MaxSeq /\ seq' = seq + 1 /\ seq' <= MaxSeq /\ MaxSeq \in Nat
        /\ Capacity \in Nat \ {0} /\ next \in 0..Capacity - 1 /\ filled \in 0..Capacity
        /\ ring \in [0..Capacity - 1 -> 0..MaxSeq]
    BY <1>1, LogAssumption DEF Write, RecorderOK
  <2>2. /\ ring' \in [0..Capacity - 1 -> 0..MaxSeq] /\ ring'[next] = seq + 1
        /\ \A j \in 0..Capacity - 1 : j # next => ring'[j] = ring[j]
    BY <1>1, <2>1 DEF Write
  <2>3. filled' = IF filled < Capacity THEN filled + 1 ELSE filled
    BY <1>1 DEF Write
  <2>4. next' = IF next + 1 < Capacity THEN next + 1 ELSE 0
    <3> DEFINE x == next + 1
    <3>1. x \in 0..2 * Capacity - 1 /\ x <= Capacity
      BY <2>1
    <3>2. next' = x % Capacity
      BY <1>1 DEF Write, Cursor
    <3> HIDE DEF x
    <3>3. x % Capacity = IF x < Capacity THEN x ELSE x - Capacity
      BY <2>1, <3>1, Wraps
    <3> QED
      BY <2>1, <3>1, <3>2, <3>3 DEF x
  <2>5. RecorderOK'
    BY <2>1, <2>2, <2>3, <2>4 DEF RecorderOK
  <2>6. filled' <= seq' /\ (filled' < Capacity => next' = filled' /\ seq' = filled')
    BY <2>1, <2>3, <2>4 DEF RingInv
  <2>7. ASSUME NEW j \in 0..Capacity - 1
        PROVE  /\ j < next' => ring'[j] = seq' - next' + j + 1
               /\ j >= next' /\ filled' = Capacity =>
                     ring'[j] = seq' - next' - Capacity + j + 1
    <3>1. CASE next + 1 < Capacity
      <4>1. j # next => ring'[j] = ring[j]
        BY <2>2
      <4>2. filled < Capacity => next = filled
        BY DEF RingInv
      <4>3. /\ j < next => ring[j] = seq - next + j + 1
            /\ j >= next /\ filled = Capacity => ring[j] = seq - next - Capacity + j + 1
        BY DEF RingInv
      <4> QED
        BY <2>1, <2>2, <2>3, <2>4, <3>1, <4>1, <4>2, <4>3, SMTT(40)
    <3>2. CASE next + 1 = Capacity
      <4>1. j # next => ring'[j] = ring[j]
        BY <2>2
      <4>2. j < next => ring[j] = seq - next + j + 1
        BY DEF RingInv
      <4> QED
        BY <2>1, <2>2, <2>3, <2>4, <3>2, <4>1, <4>2, SMTT(40)
    <3> QED
      BY <2>1, <3>1, <3>2
  <2> QED
    BY <2>5, <2>6, <2>7 DEF RingInv
<1>2. CASE UNCHANGED recorderVars
  BY <1>2 DEF RecorderOK, RingInv, recorderVars
<1>3. Write \/ UNCHANGED recorderVars
  BY DEF Next, Stream, Subscribe, ReadBacklog, SendBacklog, GoLive, SkipLive,
         SendLive, Disconnect, vars
<1> QED
  BY <1>1, <1>2, <1>3

LEMMA RingCorrect == Spec => [](RecorderOK /\ RingInv)
<1>1. Init => RecorderOK /\ RingInv
  BY LogAssumption DEF Init, RecorderOK, RingInv
<1>2. RecorderOK /\ RingInv /\ [Next]_vars => (RecorderOK /\ RingInv)'
  BY RingStep
<1> QED
  BY <1>1, <1>2, PTL DEF Spec

LEMMA RingBacklog ==
    ASSUME RecorderOK, RingInv
    PROVE  BacklogIsTail
<1> DEFINE start == IF filled = Capacity THEN next ELSE 0
<1>1. /\ Capacity \in Nat \ {0} /\ seq \in Nat /\ next \in 0..Capacity - 1
      /\ filled \in 0..Capacity
  BY LogAssumption DEF RecorderOK
<1>2. ASSUME NEW i \in 1..filled
      PROVE  ring[(start + i - 1) % Capacity] = seq - filled + i
  <2>1. CASE filled = Capacity
    <3> DEFINE x == next + i - 1
    <3>1. x \in 0..2 * Capacity - 1 /\ start = next
      BY <1>1, <2>1
    <3>2. x % Capacity = IF x < Capacity THEN x ELSE x - Capacity
      BY <1>1, <3>1, Wraps
    <3>3. CASE x < Capacity
      <4>1. x \in 0..Capacity - 1 /\ x >= next
        BY <1>1, <3>1, <3>3
      <4>2. ring[x] = seq - next - Capacity + x + 1
        BY <2>1, <4>1 DEF RingInv
      <4> QED
        BY <1>1, <2>1, <3>1, <3>2, <3>3, <4>2
    <3>4. CASE x >= Capacity
      <4>1. x - Capacity \in 0..Capacity - 1 /\ x - Capacity < next
        BY <1>1, <2>1, <3>1, <3>4
      <4>2. ring[x - Capacity] = seq - next + (x - Capacity) + 1
        BY <4>1 DEF RingInv
      <4> QED
        BY <1>1, <2>1, <3>1, <3>2, <3>4, <4>2
    <3> QED
      BY <1>1, <3>1, <3>3, <3>4
  <2>2. CASE filled < Capacity
    <3>1. i - 1 \in 0..Capacity - 1 /\ i - 1 \in 0..2 * Capacity - 1 /\ start = 0
      BY <1>1, <2>2
    <3>2. (i - 1) % Capacity = i - 1
      <4> DEFINE x == i - 1
      <4>1. x \in 0..2 * Capacity - 1 /\ x < Capacity
        BY <1>1, <3>1
      <4> HIDE DEF x
      <4>2. x % Capacity = IF x < Capacity THEN x ELSE x - Capacity
        BY <1>1, <4>1, Wraps
      <4> QED
        BY <4>1, <4>2 DEF x
    <3>3. next = filled /\ seq = filled
      BY <2>2 DEF RingInv
    <3>4. ring[i - 1] = seq - next + (i - 1) + 1
      BY <1>1, <3>1, <3>3 DEF RingInv
    <3> QED
      BY <1>1, <3>1, <3>2, <3>3, <3>4
  <2> QED
    BY <1>1, <2>1, <2>2
<1> QED
  BY <1>2 DEF BacklogIsTail, Backlog

(***************************************************************************)
(* The backlog is the last records, oldest first, for every capacity and   *)
(* however often the ring has wrapped around (Recorder.Write, Backlog).    *)
(***************************************************************************)
THEOREM BacklogCorrect == Spec => []BacklogIsTail
<1>1. RecorderOK /\ RingInv => BacklogIsTail
  BY RingBacklog
<1> QED
  BY <1>1, RingCorrect, PTL

-----------------------------------------------------------------------------
(***************************************************************************)
(* The types of what the sequences hold, and what the steps make of them.  *)
(***************************************************************************)
LEMMA SeqTypes ==
    ASSUME TypeOK
    PROVE  /\ MaxSeq \in Nat /\ seq \in Nat /\ seq <= MaxSeq
           /\ ch \in Seq(Entry) /\ Len(ch) \in Nat
           /\ \A i \in 1..Len(ch) : /\ ch[i] \in Entry /\ ch[i].seq \in Seqs
                                    /\ ch[i].seq \in Nat /\ ch[i].notice \in Nat
           /\ dropped \in Nat /\ admitted \in Nat /\ notices \in Nat
           /\ lastSent \in Nat /\ from \in Nat
           /\ todo \in Seq(Seqs) /\ Len(todo) \in Nat
           /\ \A i \in 1..Len(todo) : todo[i] \in Seqs /\ todo[i] \in Nat
           /\ shown \in Seq(Seqs) /\ Len(shown) \in Nat
           /\ \A i \in 1..Len(shown) : shown[i] \in Seqs /\ shown[i] \in Nat
           /\ Shown = {shown[i] : i \in 1..Len(shown)}
<1>1. /\ MaxSeq \in Nat /\ seq \in Nat /\ seq <= MaxSeq
      /\ dropped \in Nat /\ admitted \in Nat /\ notices \in Nat
      /\ lastSent \in Nat /\ from \in Nat
      /\ ch \in Seq(Entry) /\ todo \in Seq(Seqs) /\ shown \in Seq(Seqs)
  BY LogAssumption DEF TypeOK
<1>2. \A n \in Seqs : n \in Nat
  BY <1>1 DEF Seqs
<1>3. Len(ch) \in Nat /\ \A i \in 1..Len(ch) : ch[i] \in Entry
  BY <1>1, LenProperties, ElementOfSeq
<1>4. \A e \in Entry : e.seq \in Seqs /\ e.seq \in Nat /\ e.notice \in Nat
  BY <1>1, <1>2 DEF Entry
<1>5. Len(todo) \in Nat /\ \A i \in 1..Len(todo) : todo[i] \in Seqs
  BY <1>1, LenProperties, ElementOfSeq
<1>6. Len(shown) \in Nat /\ \A i \in 1..Len(shown) : shown[i] \in Seqs
  BY <1>1, LenProperties, ElementOfSeq
<1>7. DOMAIN shown = 1..Len(shown)
  BY <1>1, LenProperties
<1> QED
  BY <1>1, <1>2, <1>3, <1>4, <1>5, <1>6, <1>7 DEF Shown

LEMMA EmptyLen ==
    ASSUME NEW S, NEW s \in Seq(S)
    PROVE  s = <<>> <=> Len(s) = 0
  BY EmptySeq

\* The head of a sequence that is not empty.
LEMMA PopSeqs ==
    ASSUME NEW S, NEW s \in Seq(S), s # <<>>
    PROVE  Len(s) \in Nat \ {0} /\ Head(s) = s[1] /\ Head(s) \in S
<1>1. Len(s) \in Nat /\ Len(s) # 0
  BY EmptyLen, LenProperties
<1>2. Head(s) = s[1] /\ s[1] \in S
  BY <1>1, ElementOfSeq
<1> QED
  BY <1>1, <1>2

LEMMA TopType ==
    ASSUME TypeOK, OrderInv
    PROVE  Top \in Nat /\ lastSent <= Top /\ Top <= seq
<1>1. CASE todo = <<>>
  BY <1>1, SeqTypes DEF Top, OrderInv
<1>2. CASE todo # <<>>
  <2>1. Len(todo) \in 1..Len(todo)
    BY <1>2, SeqTypes, EmptyLen
  <2> QED
    BY <1>2, <2>1, SeqTypes DEF Top, OrderInv
<1> QED
  BY <1>1, <1>2

LEMMA MissedFinite ==
    ASSUME TypeOK
    PROVE  IsFiniteSet(Missed) /\ Cardinality(Missed) \in Nat
<1>1. IsFiniteSet(from..seq)
  BY SeqTypes, FS_Interval
<1>2. Missed \in SUBSET (from..seq)
  BY DEF Missed, Due
<1> QED
  BY <1>1, <1>2, FS_Subset, FS_CardinalityType

LEMMA OneMore ==
    ASSUME NEW S, IsFiniteSet(S), NEW x, NEW T \in SUBSET (S \cup {x})
    PROVE  Cardinality(T) \in Nat /\ Cardinality(T) <= Cardinality(S) + 1
<1>9. Cardinality(S) \in Nat
  BY FS_CardinalityType
<1>1. /\ IsFiniteSet(S \cup {x}) /\ Cardinality(S) \in Nat
      /\ Cardinality(S \cup {x}) <= Cardinality(S) + 1
  <2>1. /\ IsFiniteSet(S \cup {x})
        /\ Cardinality(S \cup {x}) = IF x \in S THEN Cardinality(S) ELSE Cardinality(S) + 1
    BY FS_AddElement
  <2> QED
    BY <1>9, <2>1
<1>2. IsFiniteSet(T) /\ Cardinality(T) <= Cardinality(S \cup {x})
  BY <1>1, FS_Subset
<1> QED
  BY <1>1, <1>2, FS_CardinalityType

LEMMA PushFields ==
    ASSUME NEW S, NEW s \in Seq(S), NEW e \in S
    PROVE  /\ Append(s, e) \in Seq(S) /\ Len(Append(s, e)) = Len(s) + 1
           /\ \A i \in 1..Len(s) : Append(s, e)[i] = s[i]
           /\ Append(s, e)[Len(s) + 1] = e
  BY AppendProperties, LenProperties

\* An ordered sequence stays one when a later record is appended.
LEMMA PushOrder ==
    ASSUME NEW s \in Seq(Seqs), NEW m \in Nat, NEW e \in Seqs, m < e,
           \A i \in 1..Len(s) : s[i] <= m,
           \A i \in 1..Len(s) - 1 : s[i] < s[i + 1]
    PROVE  LET t == Append(s, e)
           IN  /\ t \in Seq(Seqs) /\ \A i \in 1..Len(t) : t[i] <= e
               /\ \A i \in 1..Len(t) - 1 : t[i] < t[i + 1]
<1> DEFINE t == Append(s, e)
<1>1. /\ t \in Seq(Seqs) /\ Len(t) = Len(s) + 1 /\ \A i \in 1..Len(s) : t[i] = s[i]
      /\ t[Len(s) + 1] = e
  BY PushFields
<1>2. e \in Nat /\ Len(s) \in Nat /\ \A i \in 1..Len(s) : s[i] \in Nat
  BY LenProperties, ElementOfSeq, LogAssumption DEF Seqs
<1> HIDE DEF t
<1>3. \A i \in 1..Len(t) : t[i] <= e
  BY <1>1, <1>2
<1>4. ASSUME NEW i \in 1..Len(t) - 1 PROVE t[i] < t[i + 1]
  <2>1. CASE i = Len(s)
    <3>1. t[i] = s[i] /\ s[i] <= m /\ s[i] \in Nat /\ t[i + 1] = e
      BY <1>1, <1>2, <1>4, <2>1
    <3> QED
      BY <1>2, <3>1
  <2>2. CASE i \in 1..Len(s) - 1
    <3>1. i \in 1..Len(s) /\ i + 1 \in 1..Len(s)
      BY <1>2, <2>2
    <3> QED
      BY <1>1, <2>2, <3>1
  <2> QED
    BY <1>1, <1>2, <2>1, <2>2
<1> QED
  BY <1>1, <1>3, <1>4 DEF t

\* What send does to the channel, in its four cases.
LEMMA SendFields ==
    ASSUME TypeOK, NEW n \in Seqs, Send(n)
    PROVE  /\ ch' \in Seq(Entry) /\ Len(ch') \in Nat /\ Len(ch') <= Buffer
           /\ \A i \in 1..Len(ch) : ch'[i] = ch[i]
           /\ behind' = (behind \/ dropped' > 0)
           /\ \/ /\ dropped = 0 /\ dropped' = 0 /\ Len(ch') = Len(ch) + 1
                 /\ ch'[Len(ch) + 1] = Rec(n)
              \/ /\ dropped > 0 /\ dropped' = 0 /\ Len(ch') = Len(ch) + 2
                 /\ ch'[Len(ch) + 1] = Notice(n, dropped)
                 /\ ch'[Len(ch) + 2] = Rec(n)
              \/ /\ dropped > 0 /\ dropped' = 1 /\ Len(ch') = Len(ch) + 1
                 /\ ch'[Len(ch) + 1] = Notice(n, dropped)
              \/ dropped' = dropped + 1 /\ Len(ch') = Len(ch)
<1>1. /\ Len(ch) \in Nat /\ dropped \in Nat /\ Buffer \in Nat /\ ch \in Seq(Entry)
      /\ Len(ch) <= Buffer
  BY SeqTypes, LogAssumption DEF TypeOK
<1>2. Rec(n) \in Entry /\ Notice(n, dropped) \in Entry
  BY LogAssumption DEF Rec, Notice, Entry, TypeOK
<1>3. behind' = (behind \/ dropped' > 0)
  BY DEF Send
<1>4. CASE dropped = 0 /\ Room(ch, 1)
  <2>1. ch' = Append(ch, Rec(n)) /\ dropped' = 0
    BY <1>4 DEF Send
  <2>2. Len(ch) + 1 <= Buffer
    BY <1>4 DEF Room
  <2> QED
    BY <1>1, <1>2, <1>3, <1>4, <2>1, <2>2, PushFields
<1>5. CASE dropped > 0 /\ Room(ch, 2)
  <2>1. ch' = ch \o <<Notice(n, dropped), Rec(n)>> /\ dropped' = 0
    BY <1>1, <1>5 DEF Send
  <2>2. Len(ch) + 2 <= Buffer
    BY <1>5 DEF Room
  <2> DEFINE t == <<Notice(n, dropped), Rec(n)>>
  <2>3. /\ t \in Seq(Entry) /\ Len(t) = 2 /\ t[1] = Notice(n, dropped) /\ t[2] = Rec(n)
    BY <1>2
  <2> HIDE DEF t
  <2>4. /\ ch' \in Seq(Entry) /\ Len(ch') = Len(ch) + 2
        /\ \A i \in 1..Len(ch) + 2 : ch'[i] = IF i <= Len(ch) THEN ch[i] ELSE t[i - Len(ch)]
    BY <1>1, <2>1, <2>3, ConcatProperties DEF t
  <2>5. /\ \A i \in 1..Len(ch) : ch'[i] = ch[i]
        /\ ch'[Len(ch) + 1] = t[1] /\ ch'[Len(ch) + 2] = t[2]
    BY <1>1, <2>4, SMTT(40)
  <2> QED
    BY <1>1, <1>3, <1>5, <2>1, <2>2, <2>3, <2>4, <2>5
<1>6. CASE dropped > 0 /\ Room(ch, 1) /\ ~Room(ch, 2)
  <2>1. ch' = Append(ch, Notice(n, dropped)) /\ dropped' = 1
    BY <1>1, <1>6 DEF Send
  <2>2. Len(ch) + 1 <= Buffer
    BY <1>6 DEF Room
  <2> QED
    BY <1>1, <1>2, <1>3, <1>6, <2>1, <2>2, PushFields
<1>7. CASE /\ ~(dropped = 0 /\ Room(ch, 1)) /\ ~(dropped > 0 /\ Room(ch, 2))
           /\ ~(dropped > 0 /\ Room(ch, 1) /\ ~Room(ch, 2))
  <2>1. ch' = ch /\ dropped' = dropped + 1
    BY <1>7 DEF Send
  <2> QED
    BY <1>1, <1>3, <2>1
<1> QED
  BY <1>4, <1>5, <1>6, <1>7

\* The channel after its first entry is taken.
LEMMA PopFields ==
    ASSUME TypeOK, ch # <<>>, ch' = Tail(ch)
    PROVE  /\ Len(ch) \in Nat \ {0} /\ Head(ch) = ch[1] /\ 1 \in 1..Len(ch)
           /\ ch' \in Seq(Entry) /\ Len(ch') = Len(ch) - 1
           /\ \A i \in 1..Len(ch') : ch'[i] = ch[i + 1] /\ i + 1 \in 1..Len(ch)
           /\ Len(ch') <= Buffer
<1>1. /\ Len(ch) \in Nat \ {0} /\ ch \in Seq(Entry) /\ Len(ch) <= Buffer /\ Buffer \in Nat
  BY SeqTypes, EmptyLen, LogAssumption DEF TypeOK
<1>2. /\ ch' \in Seq(Entry) /\ Len(ch') = Len(ch) - 1
      /\ \A i \in 1..Len(ch') : ch'[i] = ch[i + 1]
  BY <1>1, HeadTailProperties
<1>3. Head(ch) = ch[1]
  BY <1>1
<1> QED
  BY <1>1, <1>2, <1>3

-----------------------------------------------------------------------------
(***************************************************************************)
(* The channel and the order of what is sent, without the accounts.        *)
(***************************************************************************)
Shape == TypeOK /\ RingInv /\ ChannelInv /\ OrderInv

\* TypeOK but for the bound of the drops, which follows from the accounts.
StreamOK ==
    /\ ch \in Seq(Entry) /\ Len(ch) <= Buffer
    /\ dropped \in Nat /\ behind \in BOOLEAN
    /\ console \in {"closed", "subscribed", "backlog", "live"}
    /\ todo \in Seq(Seqs) /\ (todo # <<>> => console = "backlog")
    /\ lastSent \in 0..MaxSeq
    /\ shown \in Seq(Seqs)
    /\ from \in 1..MaxSeq + 1
    /\ admitted \in Nat /\ notices \in Nat

LEMMA ShapeStep ==
    ASSUME Shape, [Next]_vars
    PROVE  StreamOK' /\ ChannelInv' /\ OrderInv'
<1> USE DEF Shape
<1>0. StreamOK /\ RecorderOK
  BY SeqTypes DEF StreamOK, RecorderOK, TypeOK
<1>1. CASE Write
  <2>1. /\ UNCHANGED streamVars /\ seq' = seq + 1 /\ seq + 1 \in Seqs /\ seq \in Nat
        /\ seq + 1 \in Nat
    BY <1>1, SeqTypes, SMTT(40) DEF Write, Seqs
  <2>2. OrderInv'
    <3>1. UNCHANGED <<console, todo, lastSent, shown, from, admitted, notices>>
      BY <2>1 DEF streamVars
    <3> QED
      BY <2>1, <3>1, SeqTypes, SMTT(40) DEF OrderInv
  <2>3. CASE console = "closed"
    <3>1. UNCHANGED <<ch, dropped, behind, console, todo, lastSent, shown, from,
                      admitted, notices>>
      BY <1>1, <2>3 DEF Write, Subscribed, subVars, streamVars
    <3>2. StreamOK'
      BY <1>0, <3>1 DEF StreamOK
    <3>3. ChannelInv'
      BY <2>1, <3>1, SeqTypes, SMTT(40) DEF ChannelInv
    <3> QED
      BY <2>2, <3>2, <3>3
  <2>4. CASE console # "closed"
    <3>1. /\ Send(seq + 1)
          /\ UNCHANGED <<console, todo, lastSent, shown, from, admitted, notices>>
      BY <1>1, <2>4 DEF Write, Subscribed, streamVars
    <3> DEFINE n == seq + 1
    <3>2. /\ ch' \in Seq(Entry) /\ Len(ch') \in Nat /\ Len(ch') <= Buffer
          /\ \A i \in 1..Len(ch) : ch'[i] = ch[i]
          /\ behind' = (behind \/ dropped' > 0)
      BY <2>1, <3>1, SendFields
    <3>3. \/ /\ dropped = 0 /\ dropped' = 0 /\ Len(ch') = Len(ch) + 1
             /\ ch'[Len(ch) + 1] = Rec(n)
          \/ /\ dropped > 0 /\ dropped' = 0 /\ Len(ch') = Len(ch) + 2
             /\ ch'[Len(ch) + 1] = Notice(n, dropped)
             /\ ch'[Len(ch) + 2] = Rec(n)
          \/ /\ dropped > 0 /\ dropped' = 1 /\ Len(ch') = Len(ch) + 1
             /\ ch'[Len(ch) + 1] = Notice(n, dropped)
          \/ dropped' = dropped + 1 /\ Len(ch') = Len(ch)
      BY <2>1, <3>1, SendFields
    <3>4. /\ Rec(n).seq = n /\ Rec(n).notice = 0
          /\ Notice(n, dropped).seq = n /\ Notice(n, dropped).notice = dropped
      BY DEF Rec, Notice
    <3>5. /\ dropped \in Nat /\ Len(ch) \in Nat /\ n \in Nat /\ n = seq + 1
          /\ seq \in Nat /\ behind \in BOOLEAN
          /\ \A i \in 1..Len(ch) : ch[i].seq \in Nat /\ ch[i].notice \in Nat
      BY <2>1, SeqTypes DEF TypeOK
    <3> HIDE DEF n
    <3>6. dropped' \in Nat /\ behind' \in BOOLEAN
      BY <3>2, <3>3, <3>5
    <3>7. StreamOK'
      BY <1>0, <3>1, <3>2, <3>6 DEF StreamOK
    <3>8. \A i \in 1..Len(ch') : ch'[i].seq <= n
      BY <3>2, <3>3, <3>4, <3>5, SMTT(40) DEF ChannelInv
    <3>9. \A i, j \in 1..Len(ch') : i < j =>
             /\ ch'[i].seq <= ch'[j].seq
             /\ ch'[i].notice = 0 \/ ch'[j].notice > 0 => ch'[i].seq < ch'[j].seq
      <4>1. SUFFICES ASSUME NEW i \in 1..Len(ch'), NEW j \in 1..Len(ch'), i < j
                     PROVE  /\ ch'[i].seq <= ch'[j].seq
                            /\ ch'[i].notice = 0 \/ ch'[j].notice > 0 =>
                                  ch'[i].seq < ch'[j].seq
        OBVIOUS
      <4>2. CASE j \in 1..Len(ch)
        <5>1. i \in 1..Len(ch) /\ ch'[i] = ch[i] /\ ch'[j] = ch[j]
          BY <3>2, <3>5, <4>1, <4>2
        <5> QED
          BY <4>1, <4>2, <5>1 DEF ChannelInv
      <4>3. CASE j = Len(ch) + 1
        <5>1. i \in 1..Len(ch) /\ ch'[i] = ch[i] /\ ch'[j].seq = n
          BY <3>2, <3>3, <3>4, <3>5, <4>1, <4>3
        <5>2. ch[i].seq <= seq /\ ch[i].seq \in Nat
          BY <3>5, <5>1 DEF ChannelInv
        <5> QED
          BY <3>5, <5>1, <5>2
      <4>4. CASE j = Len(ch) + 2
        <5>1. /\ dropped > 0 /\ ch'[j].seq = n /\ ch'[j].notice = 0
              /\ ch'[Len(ch) + 1].seq = n /\ ch'[Len(ch) + 1].notice = dropped
          BY <3>3, <3>4, <3>5, <4>1, <4>4
        <5>2. CASE i = Len(ch) + 1
          BY <3>5, <5>1, <5>2
        <5>3. CASE i \in 1..Len(ch)
          <6>1. ch'[i] = ch[i] /\ ch[i].seq <= seq /\ ch[i].seq \in Nat
            BY <3>2, <3>5, <5>3 DEF ChannelInv
          <6> QED
            BY <3>5, <5>1, <6>1, SMTT(40)
        <5> QED
          BY <3>5, <4>1, <4>4, <5>2, <5>3
      <4> QED
        BY <3>3, <3>5, <4>1, <4>2, <4>3, <4>4, SMTT(40)
    <3>10. ~behind' => dropped' = 0 /\ \A i \in 1..Len(ch') : ch'[i].notice = 0
      <4>1. SUFFICES ASSUME ~behind'
                     PROVE  dropped' = 0 /\ \A i \in 1..Len(ch') : ch'[i].notice = 0
        OBVIOUS
      <4>2. ~behind /\ dropped' = 0
        <5>1. ~(behind \/ dropped' > 0)
          BY <3>2, <4>1
        <5>2. ~behind /\ ~(dropped' > 0)
          BY <5>1
        <5> QED
          BY <3>6, <5>2
      <4>3. dropped = 0 /\ \A i \in 1..Len(ch) : ch[i].notice = 0
        BY <4>2 DEF ChannelInv
      <4>4. Len(ch') = Len(ch) + 1 /\ ch'[Len(ch) + 1].notice = 0
        BY <3>3, <3>4, <4>2, <4>3
      <4> QED
        BY <3>2, <3>5, <4>2, <4>3, <4>4
    <3>11. ChannelInv'
      BY <2>1, <2>4, <3>1, <3>5, <3>8, <3>9, <3>10 DEF ChannelInv
    <3> QED
      BY <2>2, <3>7, <3>11
  <2> QED
    BY <2>3, <2>4
<1>2. CASE Subscribe
  BY <1>0, <1>2 DEF Subscribe, StreamOK, ChannelInv, OrderInv, recorderVars,
       subVars
<1>3. CASE ReadBacklog
  <2>1. BacklogIsTail
    BY <1>0, RingBacklog
  <2>2. /\ todo' = [i \in 1..filled |-> seq - filled + i] /\ from' = seq - filled + 1
        /\ console = "subscribed" /\ console' = "backlog"
        /\ UNCHANGED <<seq, ch, dropped, behind, lastSent, shown, admitted, notices>>
    BY <1>3, <2>1 DEF ReadBacklog, BacklogIsTail, recorderVars, subVars
  <2>3. filled \in Nat /\ filled <= seq /\ seq \in Nat /\ seq <= MaxSeq /\ MaxSeq \in Nat
    BY SeqTypes, LogAssumption DEF TypeOK, RingInv
  <2>4. \A i \in 1..filled : seq - filled + i \in Seqs
    BY <2>3 DEF Seqs
  <2>5. /\ todo' \in Seq(Seqs) /\ Len(todo') = filled
        /\ \A i \in 1..filled : todo'[i] = seq - filled + i
    BY <2>2, <2>3, <2>4
  <2>6. from' \in 1..MaxSeq + 1
    BY <2>2, <2>3
  <2>7. StreamOK'
    BY <1>0, <2>2, <2>5, <2>6 DEF StreamOK
  <2>8. ChannelInv'
    BY <2>2 DEF ChannelInv
  <2>9. OrderInv'
    BY <2>2, <2>3, <2>5 DEF OrderInv
  <2> QED
    BY <2>7, <2>8, <2>9
<1>4. CASE SendBacklog
  <2>1. /\ console = "backlog" /\ todo # <<>> /\ lastSent' = Head(todo)
        /\ shown' = Append(shown, Head(todo)) /\ todo' = Tail(todo)
        /\ UNCHANGED <<seq, ch, dropped, behind, console, from, admitted, notices>>
    BY <1>4 DEF SendBacklog, recorderVars, subVars
  <2>2. /\ Len(todo) \in Nat \ {0} /\ Head(todo) = todo[1] /\ Head(todo) \in Seqs
        /\ todo \in Seq(Seqs) /\ shown \in Seq(Seqs) /\ Len(shown) \in Nat
    BY <2>1, SeqTypes, EmptyLen
  <2>3. /\ todo' \in Seq(Seqs) /\ Len(todo') = Len(todo) - 1
        /\ \A i \in 1..Len(todo') : todo'[i] = todo[i + 1]
    BY <2>1, <2>2, HeadTailProperties
  <2>5. lastSent' \in 0..MaxSeq /\ lastSent' = todo[1] /\ todo[1] <= seq /\ lastSent < todo[1]
    BY <2>1, <2>2 DEF Seqs, OrderInv
  <2>4. /\ shown' \in Seq(Seqs) /\ \A i \in 1..Len(shown') : shown'[i] <= todo[1]
        /\ \A i \in 1..Len(shown') - 1 : shown'[i] < shown'[i + 1]
    BY <2>1, <2>2, <2>5, PushOrder, SeqTypes DEF OrderInv
  <2>6. StreamOK'
    BY <1>0, <2>1, <2>3, <2>4, <2>5 DEF StreamOK
  <2>7. ChannelInv'
    BY <2>1 DEF ChannelInv
  <2>8. \A i \in 1..Len(todo') : lastSent' < todo'[i] /\ todo'[i] <= seq
    <3>1. \A i \in 1..Len(todo') : i + 1 \in 1..Len(todo) /\ 1 \in 1..Len(todo) /\ 1 < i + 1
      BY <2>2, <2>3
    <3> QED
      BY <2>3, <2>5, <3>1 DEF OrderInv
  <2>9. \A i, j \in 1..Len(todo') : i < j => todo'[i] < todo'[j]
    <3>1. \A i, j \in 1..Len(todo') : i < j =>
             i + 1 \in 1..Len(todo) /\ j + 1 \in 1..Len(todo) /\ i + 1 < j + 1
      BY <2>2, <2>3
    <3> QED
      BY <2>3, <3>1 DEF OrderInv
  <2> QED
    BY <2>1, <2>4, <2>5, <2>6, <2>7, <2>8, <2>9 DEF OrderInv
<1>5. CASE GoLive
  BY <1>0, <1>5 DEF GoLive, StreamOK, ChannelInv, OrderInv, recorderVars,
       subVars
<1>6. CASE SkipLive \/ SendLive
  <2>1. /\ console = "live" /\ ch # <<>> /\ ch' = Tail(ch)
        /\ UNCHANGED <<seq, dropped, behind, console, todo, from>>
    BY <1>6 DEF SkipLive, SendLive, recorderVars, streamVars
  <2>2. /\ ch' \in Seq(Entry) /\ Len(ch') = Len(ch) - 1 /\ Len(ch') <= Buffer
        /\ Len(ch) \in Nat \ {0} /\ Head(ch) = ch[1] /\ 1 \in 1..Len(ch)
        /\ \A i \in 1..Len(ch') : ch'[i] = ch[i + 1] /\ i + 1 \in 1..Len(ch)
    BY <2>1, PopFields
  <2>3. ChannelInv'
    <3>1. \A i, j \in 1..Len(ch') : i < j => i + 1 < j + 1
      BY <2>2
    <3> QED
      BY <2>1, <2>2, <3>1 DEF ChannelInv
  <2>4. CASE SkipLive
    <3>1. UNCHANGED <<lastSent, shown, admitted, notices>>
      BY <2>4 DEF SkipLive, streamVars
    <3>2. StreamOK'
      BY <1>0, <2>1, <2>2, <3>1 DEF StreamOK
    <3> QED
      BY <2>1, <2>3, <3>1, <3>2 DEF OrderInv
  <2>5. CASE SendLive
    <3>1. /\ ~Stale /\ lastSent' = ch[1].seq /\ todo = <<>>
          /\ \/ shown' = Append(shown, ch[1].seq) /\ UNCHANGED <<admitted, notices>>
             \/ /\ admitted' = admitted + ch[1].notice /\ notices' = notices + 1
                /\ UNCHANGED shown
      BY <2>1, <2>2, <2>5 DEF SendLive, TypeOK
    <3>2. /\ ch[1].seq \in Seqs /\ ch[1].seq \in Nat /\ ch[1].notice \in Nat
          /\ lastSent \in Nat /\ admitted \in Nat /\ notices \in Nat
          /\ shown \in Seq(Seqs) /\ Len(shown) \in Nat
      BY <2>2, SeqTypes
    <3>3. lastSent < lastSent' /\ lastSent' <= seq /\ lastSent' \in 0..MaxSeq
      BY <2>2, <3>1, <3>2 DEF Stale, ChannelInv, Seqs
    <3>4. admitted' \in Nat /\ notices' \in Nat
      BY <3>1, <3>2
    <3>7. /\ shown' \in Seq(Seqs)
          /\ \A i \in 1..Len(shown') : shown'[i] <= lastSent'
          /\ \A i \in 1..Len(shown') - 1 : shown'[i] < shown'[i + 1]
      <4>1. CASE UNCHANGED shown
        <5>1. \A i \in 1..Len(shown) : shown[i] \in Nat /\ shown[i] <= lastSent
          BY SeqTypes DEF OrderInv
        <5>2. \A i \in 1..Len(shown) : shown[i] <= lastSent'
          BY <3>1, <3>2, <3>3, <5>1
        <5> QED
          BY <3>2, <4>1, <5>2 DEF OrderInv
      <4>2. CASE shown' = Append(shown, ch[1].seq)
        <5> DEFINE e == ch[1].seq
        <5>1. e \in Seqs /\ lastSent < e /\ lastSent' = e
          BY <3>1, <3>2, <3>3
        <5> HIDE DEF e
        <5>2. /\ \A i \in 1..Len(shown) : shown[i] <= lastSent
              /\ \A i \in 1..Len(shown) - 1 : shown[i] < shown[i + 1]
          BY DEF OrderInv
        <5>3. shown' = Append(shown, e)
          BY <4>2 DEF e
        <5>4. /\ shown' \in Seq(Seqs) /\ \A i \in 1..Len(shown') : shown'[i] <= e
              /\ \A i \in 1..Len(shown') - 1 : shown'[i] < shown'[i + 1]
          BY <3>2, <5>1, <5>2, <5>3, PushOrder
        <5> QED
          BY <5>1, <5>4
      <4> QED
        BY <3>1, <4>1, <4>2
    <3>8. StreamOK'
      BY <1>0, <2>1, <2>2, <3>3, <3>4, <3>7 DEF StreamOK
    <3>9. OrderInv'
      <4>1. Len(todo') = 0
        BY <2>1, <3>1, SeqTypes, EmptyLen
      <4> QED
        BY <2>1, <3>3, <3>7, <4>1 DEF OrderInv
    <3> QED
      BY <2>3, <3>8, <3>9
  <2> QED
    BY <1>6, <2>4, <2>5
<1>7. CASE Disconnect
  <2>1. /\ ch' = <<>> /\ dropped' = 0 /\ behind' = FALSE /\ console' = "closed"
        /\ todo' = <<>> /\ lastSent' = 0 /\ shown' = <<>> /\ from' = 1 /\ admitted' = 0
        /\ notices' = 0 /\ UNCHANGED seq
    BY <1>7 DEF Disconnect, recorderVars
  <2>2. /\ Len(ch') = 0 /\ Len(todo') = 0 /\ Len(shown') = 0 /\ seq \in Nat
        /\ MaxSeq \in Nat /\ Buffer \in Nat
    BY <2>1, SeqTypes, LogAssumption
  <2>3. StreamOK'
    <3>1. <<>> \in Seq(Entry) /\ <<>> \in Seq(Seqs)
      BY EmptySeq
    <3>2. /\ ch' \in Seq(Entry) /\ todo' \in Seq(Seqs) /\ shown' \in Seq(Seqs)
          /\ Len(ch') <= Buffer /\ ~(todo' # <<>>)
      BY <2>1, <2>2, <3>1
    <3>3. /\ lastSent' \in 0..MaxSeq /\ from' \in 1..MaxSeq + 1 /\ dropped' \in Nat
          /\ admitted' \in Nat /\ notices' \in Nat
      BY <2>1, <2>2
    <3> QED
      BY <2>1, <3>2, <3>3 DEF StreamOK
  <2> QED
    BY <2>1, <2>2, <2>3 DEF ChannelInv, OrderInv
<1>8. CASE UNCHANGED vars
  BY <1>0, <1>8 DEF StreamOK, ChannelInv, OrderInv, vars, recorderVars,
       subVars,
                    streamVars
<1> QED
  BY <1>1, <1>2, <1>3, <1>4, <1>5, <1>6, <1>7, <1>8 DEF Next, Stream

-----------------------------------------------------------------------------
(***************************************************************************)
(* What is missed, step by step.                                           *)
(***************************************************************************)
\* A record that is logged may be missed, but not when it is put in the channel
\* with no notice before it.
LEMMA WriteMisses ==
    ASSUME Shape, Write, console # "closed"
    PROVE  /\ Top' = Top
           /\ Missed' \subseteq Missed \cup {seq + 1}
           /\ dropped = 0 /\ dropped' = 0 => Missed' \subseteq Missed
<1> DEFINE n == seq + 1
<1>1. /\ UNCHANGED <<console, todo, lastSent, shown, from, admitted, notices>>
      /\ Send(n) /\ seq' = n /\ n \in Seqs
  BY SeqTypes, SMTT(40) DEF Shape, Write, Subscribed, streamVars, Seqs
<1>2. /\ seq \in Nat /\ from \in Nat /\ Len(ch) \in Nat /\ dropped \in Nat /\ n = seq + 1
      /\ n \in Nat
      /\ \A i \in 1..Len(ch) : ch[i].seq \in Nat
  BY SeqTypes DEF Shape
<1>3. Top' = Top /\ Top \in Nat /\ Top <= seq
  BY <1>1, TopType DEF Shape, Top
<1>4. Shown' = Shown /\ Left' = Left
  BY <1>1 DEF Shown, Left
<1>5. /\ Len(ch') \in Nat /\ \A i \in 1..Len(ch) : ch'[i] = ch[i]
      /\ Len(ch) <= Len(ch')
      /\ \A i \in 1..Len(ch') : i \in 1..Len(ch) \/ ch'[i].seq = n
      /\ dropped = 0 /\ dropped' = 0 =>
            /\ Len(ch') = Len(ch) + 1 /\ ch'[Len(ch) + 1].seq = n
            /\ ch'[Len(ch) + 1].notice = 0
  <2>1. /\ Rec(n).seq = n /\ Rec(n).notice = 0 /\ Notice(n, dropped).seq = n
    BY DEF Rec, Notice
  <2>2. /\ Len(ch') \in Nat /\ \A i \in 1..Len(ch) : ch'[i] = ch[i]
    BY <1>1, SendFields DEF Shape
  <2>3. \/ /\ dropped = 0 /\ dropped' = 0 /\ Len(ch') = Len(ch) + 1
           /\ ch'[Len(ch) + 1] = Rec(n)
        \/ /\ dropped > 0 /\ dropped' = 0 /\ Len(ch') = Len(ch) + 2
           /\ ch'[Len(ch) + 1] = Notice(n, dropped)
           /\ ch'[Len(ch) + 2] = Rec(n)
        \/ /\ dropped > 0 /\ dropped' = 1 /\ Len(ch') = Len(ch) + 1
           /\ ch'[Len(ch) + 1] = Notice(n, dropped)
        \/ dropped' = dropped + 1 /\ Len(ch') = Len(ch)
    BY <1>1, SendFields DEF Shape
  <2> HIDE DEF n
  <2> QED
    BY <1>2, <2>1, <2>2, <2>3, SMTT(40)
<1>6. \A i \in 1..Len(ch) : ch[i].seq <= seq
  BY DEF Shape, ChannelInv
<1> HIDE DEF n
<1>7. ASSUME NEW m \in Pending PROVE m \in Pending'
  <2>1. /\ m \in Seqs /\ m > Top /\ \E i \in 1..Len(ch) : ch[i].seq = m
        /\ \A i \in 1..Len(ch) : ch[i].seq = m => ch[i].notice = 0
    BY <1>7 DEF Pending
  <2>2. m # n
    BY <1>2, <1>6, <2>1
  <2>3. \E i \in 1..Len(ch') : ch'[i].seq = m
    BY <1>2, <1>5, <2>1
  <2>4. \A i \in 1..Len(ch') : ch'[i].seq = m => ch'[i].notice = 0
    BY <1>5, <2>1, <2>2
  <2> QED
    BY <1>3, <2>1, <2>3, <2>4 DEF Pending
<1>8. ASSUME dropped = 0, dropped' = 0 PROVE n \in Pending'
  <2>1. Len(ch) + 1 \in 1..Len(ch') /\ ch'[Len(ch) + 1].seq = n
    BY <1>2, <1>5, <1>8
  <2>2. \A i \in 1..Len(ch') : ch'[i].seq = n => i = Len(ch) + 1
    <3>1. \A i \in 1..Len(ch) : ch'[i].seq # n
      BY <1>2, <1>5, <1>6
    <3> QED
      BY <1>2, <1>5, <1>8, <3>1
  <2>3. \A i \in 1..Len(ch') : ch'[i].seq = n => ch'[i].notice = 0
    BY <1>5, <1>8, <2>2
  <2>4. n > Top
    BY <1>2, <1>3
  <2> QED
    BY <1>1, <1>3, <2>1, <2>3, <2>4 DEF Pending
<1>9. Due' \subseteq Due \cup {n}
  BY <1>1, <1>2 DEF Due
<1>10. Missed' \subseteq Missed \cup {n}
  BY <1>4, <1>7, <1>9 DEF Missed
<1>11. dropped = 0 /\ dropped' = 0 => Missed' \subseteq Missed
  BY <1>8, <1>10 DEF Missed
<1> QED
  BY <1>3, <1>10, <1>11 DEF n

\* Taking an entry out of the channel misses nothing that was not missed: what
\* is skipped is not pending, and a notice that is sent makes only its own
\* record stale.
LEMMA PopMisses ==
    ASSUME Shape, SkipLive \/ SendLive
    PROVE  /\ Missed' \subseteq Missed
           /\ \A i \in 1..Len(ch') : Weight(i)' = Weight(i + 1)
           /\ Weight(1) = IF SendLive /\ ch[1].notice > 0 THEN ch[1].notice + 1 ELSE 0
<1>1. /\ console = "live" /\ ch # <<>> /\ ch' = Tail(ch) /\ todo = <<>>
      /\ UNCHANGED <<seq, dropped, behind, console, todo, from>>
  BY DEF SkipLive, SendLive, recorderVars, streamVars, Shape, TypeOK
<1>2. /\ Len(ch) \in Nat \ {0} /\ Head(ch) = ch[1] /\ 1 \in 1..Len(ch)
      /\ Len(ch') = Len(ch) - 1
      /\ \A i \in 1..Len(ch') : ch'[i] = ch[i + 1] /\ i + 1 \in 1..Len(ch)
  BY <1>1, PopFields DEF Shape
<1>3. Top = lastSent /\ Top' = lastSent' /\ lastSent \in Nat
  BY <1>1, SeqTypes DEF Top, Shape
<1>4. \A i \in 1..Len(ch) : ch[i].seq \in Nat /\ ch[i].notice \in Nat
  BY SeqTypes DEF Shape
<1>5. /\ SkipLive => ch[1].seq <= lastSent /\ lastSent' = lastSent /\ shown' = shown
      /\ SendLive => ch[1].seq > lastSent /\ lastSent' = ch[1].seq
  BY <1>2, <1>3, <1>4 DEF SkipLive, SendLive, Stale, streamVars
<1>6. Weight(1) = IF SendLive /\ ch[1].notice > 0 THEN ch[1].notice + 1 ELSE 0
  BY <1>2, <1>3, <1>4, <1>5 DEF Weight
<1>7. ASSUME NEW i \in 1..Len(ch') PROVE Weight(i)' = Weight(i + 1)
  <2>1. ch'[i] = ch[i + 1] /\ i + 1 \in 1..Len(ch) /\ 1 < i + 1
    BY <1>2
  <2>2. ch[i + 1].notice > 0 => ch[1].seq < ch[i + 1].seq
    BY <1>2, <2>1 DEF Shape, ChannelInv
  <2>3. Weight(i)' = IF ch[i + 1].seq > lastSent' /\ ch[i + 1].notice > 0
                     THEN ch[i + 1].notice + 1 ELSE 0
    BY <1>3, <2>1 DEF Weight
  <2>4. Weight(i + 1) = IF ch[i + 1].seq > lastSent /\ ch[i + 1].notice > 0
                        THEN ch[i + 1].notice + 1 ELSE 0
    BY <1>3 DEF Weight
  <2>5. /\ ch[1].seq \in Nat /\ ch[i + 1].seq \in Nat /\ ch[i + 1].notice \in Nat
    BY <1>2, <1>4, <2>1
  <2> QED
    BY <1>3, <1>5, <2>2, <2>3, <2>4, <2>5, SMTT(40)
<1>8. Left' = Left /\ Due' = Due
  BY <1>1 DEF Left, Due
<1>9. Shown \subseteq Shown' /\ (SendLive /\ ch[1].notice = 0 => ch[1].seq \in Shown')
  <2>1. CASE shown' = shown /\ (SendLive => ch[1].notice # 0)
    BY <2>1 DEF Shown
  <2>2. CASE shown' = Append(shown, ch[1].seq)
    <3>1. /\ ch[1].seq \in Seqs /\ shown \in Seq(Seqs) /\ Len(shown) \in Nat
          /\ Shown = {shown[i] : i \in 1..Len(shown)}
      BY <1>2, SeqTypes DEF Shape
    <3>2. /\ shown' \in Seq(Seqs) /\ Len(shown') = Len(shown) + 1
          /\ \A i \in 1..Len(shown) : shown'[i] = shown[i]
          /\ shown'[Len(shown) + 1] = ch[1].seq
      BY <2>2, <3>1, PushFields
    <3>3. DOMAIN shown' = 1..Len(shown')
      BY <3>2, LenProperties
    <3>4. Shown' = {shown'[i] : i \in 1..Len(shown')}
      BY <3>3 DEF Shown
    <3>5. /\ \A i \in 1..Len(shown) : i \in 1..Len(shown')
          /\ Len(shown) + 1 \in 1..Len(shown')
      BY <3>1, <3>2
    <3> QED
      BY <3>1, <3>2, <3>4, <3>5
  <2>3. \/ shown' = shown /\ (SendLive => ch[1].notice # 0)
        \/ shown' = Append(shown, ch[1].seq)
    <3>1. CASE SendLive
      BY <1>2, <3>1 DEF SendLive
    <3>2. CASE ~SendLive
      BY <1>5, <3>2
    <3> QED
      BY <3>1, <3>2
  <2> QED
    BY <2>1, <2>2, <2>3
<1>10. ASSUME NEW m \in Pending PROVE m \in Pending' \cup Shown'
  <2>1. /\ m \in Seqs /\ m > lastSent /\ \A i \in 1..Len(ch) : ch[i].seq = m => ch[i].notice = 0
    BY <1>3, <1>10 DEF Pending
  <2>2. PICK k \in 1..Len(ch) : ch[k].seq = m
    BY <1>10 DEF Pending
  <2>3. CASE k = 1
    BY <1>5, <1>9, <2>1, <2>2, <2>3, <1>3, <1>4
  <2>4. CASE k > 1
    <3>1. k - 1 \in 1..Len(ch') /\ ch'[k - 1] = ch[k]
      BY <1>2, <2>4
    <3>2. \A i \in 1..Len(ch') : ch'[i].seq = m => ch'[i].notice = 0
      BY <1>2, <2>1
    <3>3. CASE m > lastSent'
      BY <1>3, <2>1, <2>2, <3>1, <3>2, <3>3 DEF Pending
    <3>4. CASE ~(m > lastSent')
      <4>1. SendLive /\ lastSent' = ch[1].seq
        BY <1>5, <2>1, <3>4
      <4>2. ch[1].seq <= ch[k].seq
        BY <1>2, <2>4 DEF Shape, ChannelInv
      <4>3. ch[1].seq = m
        BY <1>2, <1>4, <2>2, <3>4, <4>1, <4>2
      <4>4. ch[1].notice = 0
        BY <1>2, <2>1, <4>3
      <4> QED
        BY <1>9, <4>1, <4>3, <4>4
    <3> QED
      BY <3>3, <3>4
  <2> QED
    BY <1>2, <2>2, <2>3, <2>4
<1>11. Missed' \subseteq Missed
  BY <1>8, <1>9, <1>10 DEF Missed
<1> QED
  BY <1>6, <1>7, <1>11

\* The backlog is everything the console is due when it is read.
LEMMA ReadMisses ==
    ASSUME Shape, ReadBacklog
    PROVE  Missed' = {} /\ Top' = seq
<1>1. /\ todo' = [i \in 1..filled |-> seq - filled + i] /\ from' = seq - filled + 1
      /\ lastSent = 0 /\ UNCHANGED <<seq, lastSent>>
  <2>1. BacklogIsTail
    BY RingBacklog DEF Shape, TypeOK, RecorderOK
  <2> QED
    BY <2>1 DEF Shape, OrderInv, ReadBacklog, BacklogIsTail, recorderVars
<1>2. filled \in Nat /\ filled <= seq /\ seq \in Nat /\ (filled = 0 => seq = 0)
  BY SeqTypes, LogAssumption DEF Shape, TypeOK, RingInv
<1>3. Len(todo') = filled /\ \A i \in 1..filled : todo'[i] = seq - filled + i
  BY <1>1, <1>2
<1>4. Top' = seq
  <2>1. CASE filled = 0
    <3>1. todo' = <<>>
      BY <1>1, <1>2, <2>1
    <3> QED
      BY <1>1, <1>2, <2>1, <3>1 DEF Top
  <2>2. CASE filled > 0
    <3>1. todo' # <<>> /\ todo'[Len(todo')] = seq
      BY <1>2, <1>3, <2>2
    <3> QED
      BY <3>1 DEF Top
  <2> QED
    BY <1>2, <2>1, <2>2
<1>5. ASSUME NEW n \in Due' PROVE n \in Left'
  <2>1. n \in from'..seq
    BY <1>1, <1>5 DEF Due
  <2>2. n - (seq - filled) \in 1..filled
    BY <1>1, <1>2, <2>1
  <2>3. todo'[n - (seq - filled)] = n
    BY <1>1, <1>2, <1>3, <2>1, <2>2
  <2> QED
    BY <1>3, <2>2, <2>3 DEF Left
<1> QED
  BY <1>4, <1>5 DEF Missed

\* A record of the backlog that is sent is shown instead of left.
LEMMA BacklogMisses ==
    ASSUME Shape, SendBacklog
    PROVE  Missed' \subseteq Missed /\ Top' = Top
<1>1. /\ todo # <<>> /\ lastSent' = Head(todo) /\ shown' = Append(shown, Head(todo))
      /\ todo' = Tail(todo) /\ UNCHANGED <<seq, ch, from>>
  BY DEF SendBacklog, recorderVars, subVars
<1>2. /\ Len(todo) \in Nat \ {0} /\ Head(todo) = todo[1] /\ Head(todo) \in Seqs
      /\ todo \in Seq(Seqs) /\ shown \in Seq(Seqs) /\ Len(shown) \in Nat
      /\ Shown = {shown[i] : i \in 1..Len(shown)}
  <2>1. /\ todo \in Seq(Seqs) /\ shown \in Seq(Seqs) /\ Len(shown) \in Nat
        /\ Shown = {shown[i] : i \in 1..Len(shown)}
    BY SeqTypes DEF Shape
  <2>2. Len(todo) \in Nat \ {0} /\ Head(todo) = todo[1] /\ Head(todo) \in Seqs
    BY <1>1, <2>1, PopSeqs
  <2> QED
    BY <2>1, <2>2
<1>3. /\ todo' \in Seq(Seqs) /\ Len(todo') = Len(todo) - 1
      /\ \A i \in 1..Len(todo') : todo'[i] = todo[i + 1]
  BY <1>1, <1>2, HeadTailProperties
<1>4. /\ shown' \in Seq(Seqs) /\ Len(shown') = Len(shown) + 1
      /\ \A i \in 1..Len(shown) : shown'[i] = shown[i]
      /\ shown'[Len(shown) + 1] = todo[1]
  BY <1>1, <1>2, PushFields
<1>5. Top' = Top
  <2>1. CASE Len(todo) = 1
    <3>1. todo' = <<>>
      BY <1>3, <2>1, EmptyLen
    <3> QED
      BY <1>1, <1>2, <2>1, <3>1 DEF Top
  <2>2. CASE Len(todo) > 1
    <3>1. todo' # <<>> /\ todo'[Len(todo')] = todo[Len(todo)]
      BY <1>2, <1>3, <2>2, EmptyLen
    <3> QED
      BY <1>1, <3>1 DEF Top
  <2>3. Len(todo) = 1 \/ Len(todo) > 1
    <3> DEFINE k == Len(todo)
    <3>1. k \in Nat \ {0}
      BY <1>2
    <3> HIDE DEF k
    <3>2. k = 1 \/ k > 1
      BY <3>1
    <3> QED
      BY <3>2 DEF k
  <2> QED
    BY <2>1, <2>2, <2>3
<1>6. Shown \cup Left \subseteq Shown' \cup Left'
  <2>1. Shown' = {shown'[i] : i \in 1..Len(shown')}
    BY <1>4, LenProperties DEF Shown
  <2>2. /\ \A i \in 1..Len(shown) : i \in 1..Len(shown')
        /\ Len(shown) + 1 \in 1..Len(shown')
    BY <1>2, <1>4
  <2>3. Shown \subseteq Shown' /\ todo[1] \in Shown'
    BY <1>2, <1>4, <2>1, <2>2
  <2>4. ASSUME NEW i \in 1..Len(todo), i # 1 PROVE todo[i] \in Left'
    <3>1. i - 1 \in 1..Len(todo') /\ todo'[i - 1] = todo[i]
      BY <1>2, <1>3, <2>4
    <3> QED
      BY <3>1 DEF Left
  <2> QED
    BY <2>3, <2>4 DEF Left
<1>7. Pending' = Pending /\ Due' = Due
  BY <1>1, <1>5 DEF Pending, Due
<1> QED
  BY <1>5, <1>6, <1>7 DEF Missed

-----------------------------------------------------------------------------
(***************************************************************************)
(* The accounts.                                                           *)
(***************************************************************************)
\* What has to be shown of the next state, for some function.
LEMMA AccountNext ==
    ASSUME NEW acc \in [0..Len(ch') -> Nat], acc[0] = admitted' + notices',
           \A i \in 1..Len(ch') : acc[i] = acc[i - 1] + Weight(i)',
           dropped' <= seq',
           console' \in {"backlog", "live"} =>
              Cardinality(Missed') <= acc[Len(ch')] + dropped'
    PROVE  AccountInv'
  BY DEF AccountInv, Account, Covers

LEMMA AccountStep ==
    ASSUME Shape, AccountInv, [Next]_vars
    PROVE  AccountInv'
<1>1. PICK acc \in [0..Len(ch) -> Nat] : Account(acc) /\ Covers(acc)
  BY DEF AccountInv
<1>14. PICK L : L = Len(ch)
  OBVIOUS
<1> DEFINE M == Cardinality(Missed)
<1>2. /\ acc[0] = admitted + notices
      /\ \A i \in 1..L : acc[i] = acc[i - 1] + Weight(i)
      /\ dropped <= seq
      /\ console \in {"backlog", "live"} => M <= acc[L] + dropped
  BY <1>14, <1>1 DEF Account, Covers
<1>3. /\ L \in Nat /\ acc[L] \in Nat /\ dropped \in Nat /\ seq \in Nat /\ M \in Nat
      /\ \A i \in 1..L : ch[i].seq \in Nat /\ ch[i].notice \in Nat
      /\ IsFiniteSet(Missed)
  BY <1>14, SeqTypes, MissedFinite DEF Shape
<1>4. ASSUME UNCHANGED <<ch, dropped, admitted, notices>>, Top' = Top,
             seq' >= seq, seq' \in Nat,
             console' \in {"backlog", "live"} =>
                console \in {"backlog", "live"} /\ Missed' \subseteq Missed
      PROVE  AccountInv'
  <2>1. \A i \in 1..L : Weight(i)' = Weight(i)
    BY <1>14, <1>4 DEF Weight
  <2>2. dropped <= seq'
    BY <1>14, <1>2, <1>3, <1>4
  <2>3. console' \in {"backlog", "live"} => Cardinality(Missed') <= acc[L] + dropped
    <3>1. SUFFICES ASSUME console' \in {"backlog", "live"}
                   PROVE  Cardinality(Missed') <= acc[L] + dropped
      OBVIOUS
    <3>2. Cardinality(Missed') <= M /\ Cardinality(Missed') \in Nat
      BY <1>14, <1>3, <1>4, <3>1, FS_Subset, FS_CardinalityType
    <3> QED
      BY <1>14, <1>2, <1>3, <1>4, <3>1, <3>2
  <2>4. Len(ch') = L /\ admitted' = admitted /\ notices' = notices /\ dropped' = dropped
    BY <1>14, <1>4
  <2> QED
    BY <1>14, <1>1, <1>2, <2>1, <2>2, <2>3, <2>4, AccountNext
<1>5. CASE Write /\ console = "closed"
  <2>1. /\ UNCHANGED <<ch, dropped, admitted, notices, console>> /\ seq' = seq + 1 /\ Top' = Top
    BY <1>5 DEF Write, Subscribed, subVars, streamVars, Top
  <2> QED
    BY <1>14, <1>3, <1>4, <1>5, <2>1
<1>6. CASE Write /\ console # "closed"
  <2> DEFINE n == seq + 1
  <2>1. /\ Send(n) /\ n \in Seqs /\ seq' = n
        /\ UNCHANGED <<console, todo, lastSent, admitted, notices>>
    BY <1>14, <1>6, SeqTypes DEF Shape, Write, Subscribed, streamVars, Seqs
  <2>2. /\ Top' = Top /\ Missed' \subseteq Missed \cup {n}
        /\ dropped = 0 /\ dropped' = 0 => Missed' \subseteq Missed
    BY <1>6, WriteMisses
  <2>3. Top \in Nat /\ Top <= seq
    BY TopType DEF Shape
  <2>4. Len(ch') \in Nat /\ \A i \in 1..L : ch'[i] = ch[i]
    BY <1>14, <2>1, SendFields DEF Shape
  <2>5. \/ /\ dropped = 0 /\ dropped' = 0 /\ Len(ch') = L + 1 /\ ch'[L + 1] = Rec(n)
        \/ /\ dropped > 0 /\ dropped' = 0 /\ Len(ch') = L + 2
           /\ ch'[L + 1] = Notice(n, dropped) /\ ch'[L + 2] = Rec(n)
        \/ /\ dropped > 0 /\ dropped' = 1 /\ Len(ch') = L + 1
           /\ ch'[L + 1] = Notice(n, dropped)
        \/ dropped' = dropped + 1 /\ Len(ch') = L
    BY <1>14, <2>1, SendFields DEF Shape
  <2>6. /\ Rec(n).seq = n /\ Rec(n).notice = 0
        /\ Notice(n, dropped).seq = n /\ Notice(n, dropped).notice = dropped
    BY DEF Rec, Notice
  <2>7. n > Top /\ n \in Nat /\ n = seq + 1
    BY <1>3, <2>3
  <2>8. /\ Cardinality(Missed') \in Nat /\ Cardinality(Missed') <= M + 1
        /\ dropped = 0 /\ dropped' = 0 => Cardinality(Missed') <= M
    BY <1>3, <2>2, OneMore, FS_Subset
  <2> HIDE DEF n, M
  <2>9. \A i \in 1..L : Weight(i)' = Weight(i)
    BY <2>2, <2>4 DEF Weight
  <2>9a. PICK told \in Nat : told = IF dropped > 0 THEN dropped + 1 ELSE 0
    BY <1>3
  <2>10. /\ L + 1 <= Len(ch') => Weight(L + 1)' = told
         /\ L + 2 <= Len(ch') => Weight(L + 2)' = 0
    <3>1. L + 1 <= Len(ch') => ch'[L + 1].seq = n /\ ch'[L + 1].notice = dropped
      BY <1>3, <2>5, <2>6
    <3>2. L + 2 <= Len(ch') => ch'[L + 2].seq = n /\ ch'[L + 2].notice = 0
      BY <1>3, <2>5, <2>6
    <3> QED
      BY <1>3, <2>2, <2>7, <2>9a, <3>1, <3>2 DEF Weight
  <2>11. PICK b : b = [i \in 0..Len(ch') |-> IF i <= L THEN acc[i] ELSE acc[L] + told]
    OBVIOUS
  <2>12. /\ \A i \in 0..L : b[i] = acc[i] /\ acc[i] \in Nat
         /\ L + 1 <= Len(ch') => b[L + 1] = acc[L] + told
         /\ L + 2 <= Len(ch') => b[L + 2] = acc[L] + told
         /\ L <= Len(ch') /\ Len(ch') <= L + 2
    <3>1. L <= Len(ch') /\ Len(ch') <= L + 2 /\ L \in Nat /\ Len(ch') \in Nat
      BY <1>3, <2>4, <2>5
    <3>2. \A i \in 0..Len(ch') : b[i] = IF i <= L THEN acc[i] ELSE acc[L] + told
      BY <2>11
    <3>3. \A i \in 0..L : i \in 0..Len(ch') /\ i <= L /\ acc[i] \in Nat
      BY <1>14, <1>1, <3>1
    <3>4. \A i \in 0..L : b[i] = acc[i] /\ acc[i] \in Nat
      BY <3>2, <3>3
    <3>5. L + 1 <= Len(ch') => L + 1 \in 0..Len(ch') /\ ~(L + 1 <= L)
      BY <3>1
    <3>6. L + 2 <= Len(ch') => L + 2 \in 0..Len(ch') /\ ~(L + 2 <= L)
      BY <3>1
    <3> QED
      BY <3>1, <3>2, <3>4, <3>5, <3>6
  <2>13. b \in [0..Len(ch') -> Nat]
    BY <1>14, <1>1, <1>3, <2>4, <2>11
  <2>14. \A i \in 1..Len(ch') : b[i] = b[i - 1] + Weight(i)'
    <3>1. SUFFICES ASSUME NEW i \in 1..Len(ch') PROVE b[i] = b[i - 1] + Weight(i)'
      OBVIOUS
    <3>2. CASE i \in 1..L
      <4>1. i \in 0..L /\ i - 1 \in 0..L
        BY <1>3, <3>2
      <4> QED
        BY <1>14, <1>2, <2>9, <2>12, <3>2, <4>1
    <3>3. CASE i = L + 1
      <4>1. b[i] = acc[L] + told /\ b[i - 1] = acc[L] /\ Weight(i)' = told
        <5>1. L + 1 <= Len(ch') /\ i - 1 = L /\ L \in 0..L
          BY <1>3, <2>4, <3>1, <3>3
        <5> QED
          BY <2>10, <2>12, <3>3, <5>1
      <4> QED
        BY <1>3, <4>1
    <3>4. CASE i = L + 2
      <4>1. /\ L + 1 <= Len(ch') /\ L + 2 <= Len(ch') /\ i - 1 = L + 1
        BY <1>3, <2>4, <3>1, <3>4
      <4>2. b[i] = acc[L] + told /\ b[i - 1] = acc[L] + told /\ Weight(i)' = 0
        BY <2>10, <2>12, <3>4, <4>1
      <4> QED
        BY <1>3, <4>2
    <3> QED
      BY <1>3, <2>4, <2>12, <3>1, <3>2, <3>3, <3>4
  <2>15. b[Len(ch')] = IF Len(ch') = L THEN acc[L] ELSE acc[L] + told
    <3>1. Len(ch') \in 0..Len(ch') /\ L <= Len(ch') /\ Len(ch') \in Nat
      BY <2>4, <2>12
    <3>2. b[Len(ch')] = IF Len(ch') <= L THEN acc[Len(ch')] ELSE acc[L] + told
      BY <2>11, <3>1
    <3> QED
      BY <1>3, <3>1, <3>2
  <2>17. dropped' \in Nat /\ dropped' <= seq'
    BY <1>14, <1>2, <1>3, <2>1, <2>5, <2>7, SMTT(40)
  <2>18. console' \in {"backlog", "live"} =>
            Cardinality(Missed') <= b[Len(ch')] + dropped'
    <3>1. /\ dropped \in Nat /\ acc[L] \in Nat /\ M \in Nat
          /\ Cardinality(Missed') \in Nat /\ Cardinality(Missed') <= M + 1
      BY <1>3, <2>8
    <3>2. SUFFICES ASSUME M <= acc[L] + dropped
                   PROVE  Cardinality(Missed') <= b[Len(ch')] + dropped'
      BY <1>14, <1>2, <2>1
    <3>3. \/ dropped = 0 /\ dropped' = 0 /\ b[Len(ch')] = acc[L]
          \/ /\ dropped > 0 /\ dropped' \in {0, 1}
             /\ b[Len(ch')] = acc[L] + (dropped + 1)
          \/ dropped' = dropped + 1 /\ b[Len(ch')] = acc[L]
      BY <1>3, <2>5, <2>9a, <2>15
    <3>4. CASE dropped = 0 /\ dropped' = 0 /\ b[Len(ch')] = acc[L]
      BY <2>8, <3>1, <3>2, <3>4
    <3>5. CASE /\ dropped > 0 /\ dropped' \in {0, 1}
               /\ b[Len(ch')] = acc[L] + (dropped + 1)
      BY <3>1, <3>2, <3>5, SMTT(40)
    <3>6. CASE dropped' = dropped + 1 /\ b[Len(ch')] = acc[L]
      BY <3>1, <3>2, <3>6
    <3> QED
      BY <3>3, <3>4, <3>5, <3>6
  <2>19. b[0] = admitted' + notices'
    BY <1>2, <1>3, <2>1, <2>12
  <2> QED
    BY <1>14, <2>13, <2>14, <2>17, <2>18, <2>19, AccountNext
<1>7. CASE Subscribe
  BY <1>14, <1>3, <1>4, <1>7 DEF Subscribe, recorderVars, subVars, Top
<1>8. CASE ReadBacklog
  <2>1. Missed' = {} /\ Top' = seq
    BY <1>8, ReadMisses
  <2>2. UNCHANGED <<seq, ch, dropped, admitted, notices>>
        /\ admitted = 0 /\ notices = 0
    BY <1>8 DEF ReadBacklog, recorderVars, subVars, Shape, OrderInv
  <2>3. \A i \in 1..L : Weight(i)' = 0
    BY <1>14, <1>3, <2>1, <2>2 DEF Weight, Shape, ChannelInv
  <2>4. PICK b : b = [i \in 0..L |-> 0]
    OBVIOUS
  <2>5. /\ b \in [0..Len(ch') -> Nat] /\ b[0] = admitted' + notices' /\ b[Len(ch')] = 0
    BY <1>14, <1>3, <2>2, <2>4
  <2>6. \A i \in 1..Len(ch') : b[i] = b[i - 1] + Weight(i)'
    BY <1>14, <1>3, <2>2, <2>3, <2>4
  <2>7. dropped' <= seq'
    BY <1>2, <1>3, <2>2
  <2>8. Cardinality(Missed') <= b[Len(ch')] + dropped'
    BY <1>3, <2>1, <2>2, <2>5, FS_EmptySet
  <2> QED
    BY <1>14, <2>5, <2>6, <2>7, <2>8, AccountNext
<1>9. CASE SendBacklog
  <2>1. Missed' \subseteq Missed /\ Top' = Top
    BY <1>9, BacklogMisses
  <2> QED
    BY <1>14, <1>3, <1>4, <1>9, <2>1 DEF SendBacklog, recorderVars, subVars
<1>10. CASE GoLive
  <2>1. UNCHANGED <<seq, ch, dropped, todo, lastSent, shown, from, admitted,
                  notices>>
    BY <1>10 DEF GoLive, recorderVars, subVars
  <2>2. Top' = Top /\ Missed' = Missed
    BY <2>1 DEF Top, Missed, Due, Shown, Left, Pending
  <2> QED
    BY <1>14, <1>3, <1>4, <1>10, <2>1, <2>2 DEF GoLive
<1>11. CASE SkipLive \/ SendLive
  <2>1. /\ Missed' \subseteq Missed
        /\ \A i \in 1..Len(ch') : Weight(i)' = Weight(i + 1)
        /\ Weight(1) = IF SendLive /\ ch[1].notice > 0 THEN ch[1].notice + 1 ELSE 0
    BY <1>11, PopMisses
  <2>2. /\ ch # <<>> /\ ch' = Tail(ch) /\ UNCHANGED <<seq, dropped, console>>
        /\ console = "live"
    BY <1>11 DEF SkipLive, SendLive, recorderVars, streamVars
  <2>3. /\ L \in Nat \ {0} /\ Head(ch) = ch[1] /\ 1 \in 1..L /\ Len(ch') = L - 1
    BY <1>14, <2>2, PopFields DEF Shape
  <2>4. admitted' + notices' = (admitted + notices) + Weight(1)
    <3>1. admitted \in Nat /\ notices \in Nat /\ ch[1].notice \in Nat
      BY <1>3, <2>3, SeqTypes DEF Shape
    <3>2. CASE SendLive
      <4>1. IF ch[1].notice = 0 THEN UNCHANGED <<admitted, notices>>
            ELSE admitted' = admitted + ch[1].notice /\ notices' = notices + 1
        BY <2>3, <3>2 DEF SendLive
      <4> QED
        BY <2>1, <3>1, <3>2, <4>1
    <3>3. CASE ~SendLive
      <4>1. UNCHANGED <<admitted, notices>>
        BY <1>11, <3>3 DEF SkipLive, streamVars
      <4> QED
        BY <2>1, <3>1, <3>3, <4>1
    <3> QED
      BY <3>2, <3>3
  <2>5. PICK b : b = [i \in 0..L - 1 |-> acc[i + 1]]
    OBVIOUS
  <2>6. \A i \in 0..L - 1 : b[i] = acc[i + 1] /\ i + 1 \in 0..L /\ i + 1 \in 1..L
    BY <2>3, <2>5
  <2>7. b \in [0..Len(ch') -> Nat]
    BY <1>14, <1>1, <2>3, <2>5
  <2>8. b[Len(ch')] = acc[L] /\ b[0] = admitted' + notices'
    <3>1. acc[1] = acc[0] + Weight(1)
      BY <1>2, <2>3
    <3> QED
      BY <1>2, <2>3, <2>4, <2>6, <3>1
  <2>9. \A i \in 1..Len(ch') : b[i] = b[i - 1] + Weight(i)'
    <3>1. SUFFICES ASSUME NEW i \in 1..Len(ch') PROVE b[i] = b[i - 1] + Weight(i)'
      OBVIOUS
    <3>2. i \in 0..L - 1 /\ i - 1 \in 0..L - 1 /\ i + 1 \in 1..L /\ (i + 1) - 1 = i
      BY <2>3, <3>1
    <3>3. b[i] = acc[i + 1] /\ b[i - 1] = acc[i]
      BY <2>3, <2>6, <3>2
    <3>4. acc[i + 1] = acc[i] + Weight(i + 1)
      BY <1>2, <3>2
    <3> QED
      BY <2>1, <3>1, <3>3, <3>4
  <2>11. Cardinality(Missed') <= M /\ Cardinality(Missed') \in Nat
    BY <1>3, <2>1, FS_Subset, FS_CardinalityType
  <2>12. /\ dropped' <= seq'
         /\ Cardinality(Missed') <= b[Len(ch')] + dropped'
    BY <1>2, <1>3, <2>2, <2>8, <2>11
  <2> QED
    BY <1>14, <2>7, <2>8, <2>9, <2>12, AccountNext
<1>12. CASE Disconnect
  <2>1. /\ ch' = <<>> /\ dropped' = 0 /\ admitted' = 0 /\ console' = "closed"
        /\ notices' = 0 /\ UNCHANGED seq
    BY <1>12 DEF Disconnect, recorderVars
  <2>2. PICK b : b = [i \in 0..0 |-> 0]
    OBVIOUS
  <2>3. /\ Len(ch') = 0 /\ b \in [0..Len(ch') -> Nat] /\ b[0] = 0
    BY <2>1, <2>2
  <2> QED
    BY <1>14, <1>3, <2>1, <2>3, AccountNext
<1>13. CASE UNCHANGED vars
  <2>1. UNCHANGED <<seq, ch, dropped, console, todo, lastSent, shown, from, admitted,
                  notices>>
    BY <1>13 DEF vars, recorderVars, subVars, streamVars
  <2>2. Top' = Top /\ Missed' = Missed
    BY <2>1 DEF Top, Missed, Due, Shown, Left, Pending
  <2> QED
    BY <1>14, <1>3, <1>4, <2>1, <2>2
<1> QED
  BY <1>5, <1>6, <1>7, <1>8, <1>9, <1>10, <1>11, <1>12, <1>13 DEF Next, Stream

LEMMA MissStep ==
    ASSUME Shape, MissInv, [Next]_vars
    PROVE  MissInv'
<1>1. ASSUME behind' = behind,
             console' \in {"backlog", "live"} =>
                console \in {"backlog", "live"} /\ Missed' \subseteq Missed
      PROVE  MissInv'
  BY <1>1 DEF MissInv
<1>2. CASE Write
  <2>1. SUFFICES ASSUME console' \in {"backlog", "live"}, ~behind' PROVE Missed' = {}
    BY DEF MissInv
  <2>2. UNCHANGED console /\ console # "closed"
    BY <1>2, <2>1 DEF Write, streamVars
  <2>3. Send(seq + 1) /\ seq + 1 \in Seqs /\ dropped \in Nat
    BY <1>2, <2>2, SeqTypes DEF Shape, Write, Subscribed, Seqs
  <2>4. ~behind /\ ~(dropped' > 0)
    BY <2>1, <2>3 DEF Send
  <2>5. dropped = 0
    BY <2>4 DEF Shape, ChannelInv
  <2>6. dropped' \in {0, 1}
    BY <2>3, <2>5, SendFields DEF Shape
  <2>7. Missed' \subseteq Missed
    BY <1>2, <2>2, <2>4, <2>5, <2>6, WriteMisses
  <2> QED
    BY <2>1, <2>2, <2>4, <2>7 DEF MissInv
<1>3. CASE Subscribe
  BY <1>3 DEF Subscribe, MissInv
<1>4. CASE ReadBacklog
  BY <1>4, ReadMisses DEF MissInv
<1>5. CASE SendBacklog
  BY <1>1, <1>5, BacklogMisses DEF SendBacklog, subVars
<1>6. CASE GoLive \/ UNCHANGED vars
  <2>1. UNCHANGED <<seq, ch, behind, todo, lastSent, shown, from>>
    BY <1>6 DEF GoLive, vars, recorderVars, subVars, streamVars
  <2>2. Missed' = Missed
    BY <2>1 DEF Missed, Due, Shown, Left, Pending, Top
  <2> QED
    BY <1>1, <1>6, <2>1, <2>2 DEF GoLive, vars, streamVars
<1>7. CASE SkipLive \/ SendLive
  BY <1>1, <1>7, PopMisses DEF SkipLive, SendLive, streamVars
<1>8. CASE Disconnect
  BY <1>8 DEF Disconnect, MissInv
<1> QED
  BY <1>2, <1>3, <1>4, <1>5, <1>6, <1>7, <1>8 DEF Next, Stream

-----------------------------------------------------------------------------
(***************************************************************************)
(* All together.                                                           *)
(***************************************************************************)
\* No more is counted for the next notice than was logged.
LEMMA CountersBounded ==
    ASSUME RecorderOK, StreamOK, AccountInv
    PROVE  TypeOK
<1>1. dropped <= seq
  BY DEF AccountInv, Covers
<1>2. dropped \in 0..MaxSeq
  BY <1>1, LogAssumption DEF StreamOK, RecorderOK
<1> QED
  BY <1>2 DEF TypeOK, RecorderOK, StreamOK

StreamInv == Shape /\ AccountInv /\ MissInv

LEMMA StreamStep ==
    ASSUME StreamInv, [Next]_vars
    PROVE  StreamInv'
<1> USE DEF StreamInv
<1>1. RecorderOK' /\ RingInv'
  BY RingStep DEF Shape, TypeOK, RecorderOK
<1>2. StreamOK' /\ ChannelInv' /\ OrderInv'
  BY ShapeStep
<1>3. AccountInv' /\ MissInv'
  BY AccountStep, MissStep
<1>4. RecorderOK' /\ StreamOK' /\ AccountInv' => TypeOK'
  BY CountersBounded, PTL
<1> QED
  BY <1>1, <1>2, <1>3, <1>4 DEF Shape

LEMMA StreamCorrect == Spec => []StreamInv
<1>1. Init => StreamInv
  <2> SUFFICES ASSUME Init PROVE StreamInv
    OBVIOUS
  <2>1. /\ ch = <<>> /\ todo = <<>> /\ shown = <<>> /\ dropped = 0 /\ admitted = 0
        /\ notices = 0 /\ seq = 0 /\ console = "closed" /\ lastSent = 0
        /\ behind = FALSE /\ from = 1
    BY DEF Init
  <2>2. Len(ch) = 0 /\ Len(todo) = 0 /\ Len(shown) = 0
    BY <2>1
  <2>3. RecorderOK /\ RingInv
    BY LogAssumption DEF Init, RecorderOK, RingInv
  <2>4. StreamOK
    <3>1. ch \in Seq(Entry) /\ todo \in Seq(Seqs) /\ shown \in Seq(Seqs)
      BY <2>1, EmptySeq
    <3>2. Len(ch) <= Buffer /\ lastSent \in 0..MaxSeq /\ from \in 1..MaxSeq + 1
      BY <2>1, <2>2, LogAssumption
    <3> QED
      BY <2>1, <3>1, <3>2 DEF StreamOK
  <2>5. ChannelInv /\ OrderInv /\ MissInv
    BY <2>1, <2>2 DEF ChannelInv, OrderInv, MissInv
  <2>6. AccountInv
    <3>1. PICK b : b = [i \in 0..0 |-> 0]
      OBVIOUS
    <3>2. b \in [0..Len(ch) -> Nat] /\ b[0] = 0
      BY <2>2, <3>1
    <3>3. Account(b) /\ Covers(b)
      BY <2>1, <2>2, <3>2 DEF Account, Covers
    <3> QED
      BY <3>2, <3>3 DEF AccountInv
  <2> QED
    BY <2>3, <2>4, <2>5, <2>6, CountersBounded DEF StreamInv, Shape
<1>2. StreamInv /\ [Next]_vars => StreamInv'
  BY StreamStep
<1> QED
  BY <1>1, <1>2, PTL DEF Spec

\* The types of the recorder's and the stream's state; the drops that wait to be
\* told never outnumber the records.
THEOREM TypeCorrect == Spec => []TypeOK
<1>1. StreamInv => TypeOK
  BY DEF StreamInv, Shape
<1> QED
  BY <1>1, StreamCorrect, PTL

(***************************************************************************)
(* A console shows each record once and in order, and one that keeps up    *)
(* misses nothing, for every size of the ring and of the channel: Backlog  *)
(* is read after Subscribe, and the handler skips what it has sent         *)
(* (registerLogRoutes).                                                    *)
(***************************************************************************)
THEOREM ShownCorrect == Spec => []ShownOnce
<1>1. StreamInv => ShownOnce
  <2> SUFFICES ASSUME StreamInv PROVE ShownOnce
    OBVIOUS
  <2>1. \A i \in 1..Len(shown) - 1 : shown[i] < shown[i + 1]
    BY DEF StreamInv, Shape, OrderInv
  <2>2. ASSUME console = "live", ~behind
        PROVE  Due \subseteq Shown \cup {ch[i].seq : i \in DOMAIN ch}
    <3>1. Missed = {}
      BY <2>2 DEF StreamInv, MissInv
    <3>2. Left = {}
      <4>1. todo = <<>>
        BY <2>2 DEF StreamInv, Shape, TypeOK
      <4>2. Len(todo) = 0
        BY <4>1
      <4> QED
        BY <4>2 DEF Left
    <3>3. DOMAIN ch = 1..Len(ch)
      BY LenProperties DEF StreamInv, Shape, TypeOK
    <3>4. Pending \subseteq {ch[i].seq : i \in DOMAIN ch}
      BY <3>3 DEF Pending
    <3> QED
      BY <3>1, <3>2, <3>4 DEF Missed
  <2> QED
    BY <2>1, <2>2 DEF ShownOnce
<1> QED
  BY <1>1, StreamCorrect, PTL

(***************************************************************************)
(* What a console that has caught up misses is no more than the drops it   *)
(* was told of, one record for each notice that told it, whose number the  *)
(* notice has taken, and the drops the next notice will tell of            *)
(* (subscriber.send), for every size of the ring and of the channel.       *)
(***************************************************************************)
THEOREM GapCorrect == Spec => []GapAnnounced
<1>1. StreamInv => GapAnnounced
  <2> SUFFICES ASSUME StreamInv, console = "live", ch = <<>>
               PROVE  Cardinality(Due \ Shown) <= admitted + notices + dropped
    BY DEF GapAnnounced
  <2>1. todo = <<>> /\ Len(ch) = 0
    BY DEF StreamInv, Shape, TypeOK
  <2>2. Left = {} /\ Pending = {}
    <3>1. Len(todo) = 0
      BY <2>1
    <3> QED
      BY <2>1, <3>1 DEF Left, Pending
  <2>3. Missed = Due \ Shown
    BY <2>2 DEF Missed
  <2>4. PICK acc \in [0..Len(ch) -> Nat] : Account(acc) /\ Covers(acc)
    BY DEF StreamInv, AccountInv
  <2>5. acc[Len(ch)] = admitted + notices /\ Cardinality(Missed) <= acc[Len(ch)] + dropped
    BY <2>1, <2>4 DEF Account, Covers
  <2> QED
    BY <2>3, <2>5
<1> QED
  BY <1>1, StreamCorrect, PTL
=============================================================================
