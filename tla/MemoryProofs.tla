---------------------------- MODULE MemoryProofs ----------------------------
(***************************************************************************)
(* Proofs about Memory, for every set of directories, silos, contents,     *)
(* models and requests, and any finite number of memories.                 *)
(***************************************************************************)
EXTENDS Memory, FiniteSetTheorems, TLAPS

-----------------------------------------------------------------------------
(***************************************************************************)
(* The inductive invariants.                                               *)
(***************************************************************************)
\* Rowids do not run out: the largest is no more than the ids drawn.
RowidInv == \A d \in Dirs : \A r \in db[d].rows : r.rowid <= Cardinality(drawn)

\* A request under way has a store, and a search has fetched nothing yet.
RequestInv ==
    \A o \in Ops : /\ op[o].at # "none" => op[o].dir \in Dirs
                   /\ op[o].at = "search" => op[o].out = {}

\* The store that is open has its own key, unless data_dir was changed since
\* the key was loaded.
KeyInv ==
    /\ store # NoDir => cipher # Plain /\ (cipher = store \/ patched)
    /\ cipher # Plain => cipher = dataDir \/ patched

\* Every memory is in the mirror, and no two have the same rowid.
MirrorInv ==
    \A d \in Dirs : \A r \in db[d].rows :
        /\ [rowid |-> r.rowid, text |-> r.text] \in db[d].fts
        /\ \A q \in db[d].rows : q.rowid = r.rowid => q = r

\* A matching memory that was not forgotten is stored, and is still to be
\* fetched or has been, unless hits were cut off.
RecallInv ==
    \A o \in Ops :
        /\ op[o].at \in {"search", "fetch"} =>
              \A i \in op[o].matching :
                  \E r \in db[op[o].dir].rows : r.id = i /\ r.silo = op[o].silo
        /\ op[o].at = "search" => op[o].matching \subseteq op[o].hits
        /\ op[o].at = "fetch" /\ op[o].whole =>
              op[o].matching \subseteq op[o].hits \cup op[o].out

\* A memory whose embedding is being computed is stored, unless it was deleted
\* meanwhile.
EmbedInv ==
    /\ raced \subseteq forgotten
    /\ \A o \in Ops : op[o].at = "embed" =>
           \A i \in op[o].hits :
               i \in raced \/ \E r \in db[op[o].dir].rows : r.id = i
    /\ EmbeddingsOwned
    /\ RememberedKept

-----------------------------------------------------------------------------
(***************************************************************************)
(* Numbers: a bounded set of natural numbers has a largest member, as the  *)
(* order on them is well-founded.                                          *)
(***************************************************************************)
LEMMA LeastBound ==
    ASSUME NEW T \in SUBSET Nat, T # {}
    PROVE  \E m \in T : \A y \in T : m <= y
<1> DEFINE R == {ss \in Nat \X Nat : ss[1] < ss[2]}
<1>1. IsWellFoundedOn(R, Nat)
  BY NatLessThanWellFounded DEF OpToRel
<1>2. \A x, y \in Nat : y < x => <<y, x>> \in R
  OBVIOUS
<1> HIDE DEF R
<1>3. PICK m \in T : \A y \in T : ~(<<y, m>> \in R)
  BY <1>1, WFMin
<1>4. \A y \in T : y \in Nat /\ m \in Nat /\ ~(y < m)
  BY <1>2, <1>3
<1>5. \A y \in T : m <= y
  BY <1>4
<1> QED
  BY <1>5

LEMMA MaxOfBounded ==
    ASSUME NEW n \in Nat, NEW S \in SUBSET (0..n), 0 \in S
    PROVE  Max(S) \in S /\ \A y \in S : y <= Max(S)
<1> DEFINE B == {m \in Nat : \A y \in S : y <= m}
<1>1. n \in B
  OBVIOUS
<1>2. PICK m \in B : \A y \in B : m <= y
  BY <1>1, LeastBound
<1>3. m \in S
  <2>1. SUFFICES ASSUME m \notin S PROVE FALSE
    OBVIOUS
  <2>2. m - 1 \in B
    BY <2>1, <1>2
  <2> QED
    BY <1>2, <2>2
<1>4. \E x \in S : \A y \in S : x >= y
  BY <1>2, <1>3
<1>5. Max(S) \in S /\ \A y \in S : Max(S) >= y
  BY <1>4 DEF Max
<1> QED
  BY <1>5

-----------------------------------------------------------------------------
(***************************************************************************)
(* Records.                                                                *)
(***************************************************************************)
LEMMA NoRequestFields ==
    /\ NoRequest \in Request
    /\ NoRequest.at = "none" /\ NoRequest.dir = NoDir /\ NoRequest.limit = 0
    /\ NoRequest.hits = {} /\ NoRequest.out = {} /\ NoRequest.matching = {}
    /\ NoRequest.open = FALSE /\ NoRequest.whole = FALSE
<1>1. (CHOOSE s \in Silos : TRUE) \in Silos
  BY MemoryAssumption
<1> QED
  BY <1>1 DEF NoRequest, Request, Phases

\* What a database holds.
LEMMA DatabaseFields ==
    ASSUME TypeOK, NEW d \in Dirs
    PROVE  /\ db[d] \in Database /\ db[d].rows \subseteq Row
           /\ db[d].fts \subseteq [rowid: Rowids, text: Texts]
           /\ db[d].emb \subseteq [id: Ids, model: Models]
  BY DEF TypeOK, Database

\* The rowid of the next memory is above those in use, and there is one for
\* every id that can still be drawn.
LEMMA RowidFresh ==
    ASSUME TypeOK, RowidInv, NEW d \in Dirs, NEW i \in Ids, i \notin drawn
    PROVE  /\ NextRowid(d) \in Rowids
           /\ Cardinality(drawn) \in Nat
           /\ Cardinality(drawn \cup {i}) = Cardinality(drawn) + 1
           /\ NextRowid(d) <= Cardinality(drawn) + 1
           /\ \A r \in db[d].rows : r.rowid \in Nat /\ r.rowid < NextRowid(d)
<1> DEFINE S == {0} \cup {r.rowid : r \in db[d].rows}
           n == Cardinality(drawn)
<1>1. IsFiniteSet(drawn) /\ n \in Nat
  BY MemoryAssumption, FS_Subset, FS_CardinalityType DEF TypeOK
<1>2. Cardinality(drawn \cup {i}) = n + 1
  BY <1>1, FS_AddElement
<1>3. n + 1 <= Cardinality(Ids) /\ Cardinality(Ids) \in Nat
  <2>1. drawn \cup {i} \in SUBSET Ids
    BY DEF TypeOK
  <2> QED
    BY <1>2, <2>1, MemoryAssumption, FS_Subset, FS_CardinalityType
<1>4. \A r \in db[d].rows : r.rowid \in Nat /\ r.rowid <= n
  <2>1. \A r \in db[d].rows : r.rowid \in Rowids
    BY DatabaseFields DEF Row
  <2> QED
    BY <1>3, <2>1 DEF RowidInv, Rowids
<1>5. S \in SUBSET (0..n) /\ 0 \in S
  BY <1>1, <1>4
<1>6. Max(S) \in S /\ \A y \in S : y <= Max(S)
  BY <1>1, <1>5, MaxOfBounded
<1>7. Max(S) \in 0..n /\ \A r \in db[d].rows : r.rowid <= Max(S)
  BY <1>5, <1>6
<1>8. NextRowid(d) = 1 + Max(S)
  BY DEF NextRowid
<1> HIDE DEF S, n
<1>9. NextRowid(d) \in 1..(n + 1) /\ NextRowid(d) \in 1..Cardinality(Ids)
  BY <1>1, <1>3, <1>7, <1>8
<1>10. \A r \in db[d].rows : r.rowid \in Nat /\ r.rowid < NextRowid(d)
  BY <1>1, <1>4, <1>7, <1>8
<1> QED
  BY <1>1, <1>2, <1>9, <1>10 DEF n, Rowids

\* The three transactions, table by table.
LEMMA InsertFields ==
    ASSUME TypeOK, RowidInv, NEW d \in Dirs, NEW i \in Ids, i \notin drawn,
           NEW s \in Silos, NEW t \in Texts, Insert(d, i, s, t)
    PROVE  /\ db' \in [Dirs -> Database]
           /\ \E new \in Row :
                 /\ new.rowid = NextRowid(d) /\ new.id = i /\ new.silo = s
                 /\ new.text = t /\ new.key = cipher
                 /\ db'[d].rows = db[d].rows \cup {new}
           /\ db'[d].fts = db[d].fts \cup {[rowid |-> NextRowid(d), text |-> t]}
           /\ db'[d].emb = db[d].emb
           /\ \A e \in Dirs \ {d} : db'[e] = db[e]
<1> DEFINE new == [rowid |-> NextRowid(d), id |-> i, silo |-> s, text |-> t,
                   key |-> cipher]
           entry == [rowid |-> NextRowid(d), text |-> t]
<1>1. new \in Row /\ entry \in [rowid: Rowids, text: Texts]
  BY RowidFresh DEF Row, TypeOK
<1>2. db' = [db EXCEPT ![d].rows = @ \cup {new}, ![d].fts = @ \cup {entry}]
  BY DEF Insert
<1>4. /\ new.rowid = NextRowid(d) /\ new.id = i /\ new.silo = s
      /\ new.text = t /\ new.key = cipher
  OBVIOUS
<1> HIDE DEF new, entry
<1>3. /\ db'[d].rows = db[d].rows \cup {new} /\ db'[d].fts = db[d].fts \cup {entry}
      /\ db'[d].emb = db[d].emb /\ \A e \in Dirs \ {d} : db'[e] = db[e]
      /\ db' \in [Dirs -> Database]
  BY <1>1, <1>2, DatabaseFields, ZenonT(60) DEF TypeOK, Database
<1> QED
  BY <1>1, <1>3, <1>4 DEF entry

LEMMA DeleteFields ==
    ASSUME TypeOK, NEW d \in Dirs, NEW r, Delete(d, r)
    PROVE  /\ db' \in [Dirs -> Database]
           /\ db'[d].rows = db[d].rows \ {r}
           /\ db'[d].fts = {e \in db[d].fts : e.rowid # r.rowid}
           /\ db'[d].emb = {e \in db[d].emb : e.id # r.id}
           /\ \A e \in Dirs \ {d} : db'[e] = db[e]
  BY DatabaseFields, ZenonT(60) DEF Delete, TypeOK, Database

LEMMA EmbeddingFields ==
    ASSUME TypeOK, RequestInv, NEW o \in Ops, NEW m \in Models, PutEmbedding(o, m)
    PROVE  LET d == op[o].dir
           IN /\ d \in Dirs /\ db' \in [Dirs -> Database]
              /\ db'[d].rows = db[d].rows /\ db'[d].fts = db[d].fts
              /\ db'[d].emb = db[d].emb \cup
                                 {[id |-> i, model |-> m] : i \in op[o].hits}
              /\ \A e \in Dirs \ {d} : db'[e] = db[e]
<1> DEFINE d == op[o].dir
           new == {[id |-> i, model |-> m] : i \in op[o].hits}
<1>1. d \in Dirs /\ new \subseteq [id: Ids, model: Models]
  BY DEF PutEmbedding, RequestInv, TypeOK, Request
<1>2. db' = [db EXCEPT ![d].emb = @ \cup new]
  BY DEF PutEmbedding
<1> HIDE DEF d, new
<1>3. /\ db'[d].rows = db[d].rows /\ db'[d].fts = db[d].fts
      /\ db'[d].emb = db[d].emb \cup new
      /\ \A e \in Dirs \ {d} : db'[e] = db[e]
      /\ db' \in [Dirs -> Database]
  BY <1>1, <1>2, DatabaseFields DEF TypeOK, Database
<1> QED
  BY <1>1, <1>3 DEF d, new

\* What the steps make of a request, field by field.
LEMMA StopFields ==
    ASSUME TypeOK, Stop
    PROVE  /\ op' \in [Ops -> Request]
           /\ \A o \in Ops : /\ op'[o].at = op[o].at /\ op'[o].dir = op[o].dir
                             /\ op'[o].silo = op[o].silo /\ op'[o].limit = op[o].limit
                             /\ op'[o].hits = op[o].hits /\ op'[o].out = op[o].out
                             /\ op'[o].matching = op[o].matching
                             /\ op'[o].whole = op[o].whole
  BY ZenonT(60) DEF Stop, TypeOK, Request

LEMMA ForgetFields ==
    ASSUME TypeOK, NEW r, Forget(r)
    PROVE  /\ op' \in [Ops -> Request]
           /\ store \in Dirs /\ r \in db[store].rows /\ r \in Row
           /\ \A o \in Ops : /\ op'[o].at = op[o].at /\ op'[o].dir = op[o].dir
                             /\ op'[o].silo = op[o].silo /\ op'[o].limit = op[o].limit
                             /\ op'[o].hits = op[o].hits /\ op'[o].out = op[o].out
                             /\ op'[o].matching = op[o].matching \ {r.id}
                             /\ op'[o].whole = op[o].whole
<1>1. store \in Dirs /\ r \in db[store].rows
  BY DEF Forget, TypeOK
<1>2. r \in Row
  BY <1>1, DatabaseFields
<1> QED
  BY <1>1, <1>2, ZenonT(60) DEF Forget, TypeOK, Request

LEMMA RememberFields ==
    ASSUME TypeOK, NEW o \in Ops, NEW s \in Silos, NEW t \in Texts, NEW i \in Ids,
           Remember(o, s, t, i)
    PROVE  /\ op' \in [Ops -> Request] /\ store \in Dirs /\ i \notin drawn
           /\ op'[o].at = "embed" /\ op'[o].dir = store /\ op'[o].hits = {i}
           /\ \A e \in Ops \ {o} : op'[e] = op[e]
<1> DEFINE q == [NoRequest EXCEPT !.at = "embed", !.dir = store, !.open = TRUE,
                                  !.silo = s, !.hits = {i}]
<1>1. store \in Dirs /\ i \notin drawn /\ op' = [op EXCEPT ![o] = q]
  BY DEF Remember, TypeOK
<1>2. q \in Request /\ q.at = "embed" /\ q.dir = store /\ q.hits = {i}
  BY <1>1, NoRequestFields DEF Request, Phases
<1> HIDE DEF q
<1> QED
  BY <1>1, <1>2 DEF TypeOK

LEMMA RecallFields ==
    ASSUME TypeOK, NEW o \in Ops, NEW s \in Silos, NEW t \in Texts, Recall(o, s, t)
    PROVE  /\ op' \in [Ops -> Request] /\ store \in Dirs
           /\ op'[o].at = "search" /\ op'[o].dir = store /\ op'[o].silo = s
           /\ op'[o].hits = KeywordSearch(store, s, t) /\ op'[o].out = {}
           /\ op'[o].matching = {r.id : r \in {x \in db[store].rows :
                                                 x.silo = s /\ x.text = t}}
           /\ \A e \in Ops \ {o} : op'[e] = op[e]
<1> DEFINE M == {r.id : r \in {x \in db[store].rows : x.silo = s /\ x.text = t}}
           K == KeywordSearch(store, s, t)
           q == [NoRequest EXCEPT !.at = "search", !.dir = store, !.open = TRUE,
                                  !.silo = s, !.hits = K, !.matching = M]
<1>1. store \in Dirs /\ op' = [op EXCEPT ![o] = q]
  BY DEF Recall, TypeOK
<1>2. db[store].rows \subseteq Row
  BY <1>1, DatabaseFields
<1>3. M \subseteq Ids /\ K \subseteq Ids
  BY <1>2 DEF Row, KeywordSearch
<1> HIDE DEF M, K
<1>4. /\ q \in Request /\ q.at = "search" /\ q.dir = store /\ q.silo = s
      /\ q.hits = K /\ q.matching = M /\ q.out = {}
  BY <1>1, <1>3, NoRequestFields DEF Request, Phases
<1> HIDE DEF q
<1> QED
  BY <1>1, <1>4 DEF TypeOK, M, K

\* The hits that are kept are all of them, or as many as the limit allows.
LEMMA VectorFields ==
    ASSUME TypeOK, RequestInv, NEW o \in Ops, NEW n \in Limits, VectorSearch(o, n)
    PROVE  /\ op' \in [Ops -> Request] /\ op[o].at = "search"
           /\ op'[o].at = "fetch" /\ op'[o].dir = op[o].dir
           /\ op'[o].silo = op[o].silo /\ op'[o].limit = n
           /\ op'[o].out = op[o].out /\ op'[o].matching = op[o].matching
           /\ Cardinality(op'[o].hits) <= n
           /\ op'[o].whole => op[o].hits \subseteq op'[o].hits
           /\ \A e \in Ops \ {o} : op'[e] = op[e]
<1> DEFINE Found(d, s) == UNION {SUBSET EmbeddingsBySilo(d, s, m) : m \in Models}
<1>1. op[o].at = "search" /\ op[o].dir \in Dirs /\ op[o] \in Request
  BY DEF VectorSearch, RequestInv, TypeOK
<1>2. PICK found \in {{}} \cup (IF op[o].open THEN Found(op[o].dir, op[o].silo) ELSE {}) :
         \E kept \in Fuse(op[o].hits, found, n) :
            op' = [op EXCEPT ![o].at = "fetch", ![o].limit = n, ![o].hits = kept,
                     ![o].whole = (Cardinality(op[o].hits \cup found) <= n)]
  BY DEF VectorSearch
<1>3. PICK kept \in Fuse(op[o].hits, found, n) :
         op' = [op EXCEPT ![o].at = "fetch", ![o].limit = n, ![o].hits = kept,
                  ![o].whole = (Cardinality(op[o].hits \cup found) <= n)]
  BY <1>2
<1>4. found \subseteq Ids
  <2>1. db[op[o].dir].rows \subseteq Row
    BY <1>1, DatabaseFields
  <2>2. \A m \in Models : EmbeddingsBySilo(op[o].dir, op[o].silo, m) \subseteq Ids
    BY <2>1 DEF EmbeddingsBySilo, Row
  <2> QED
    BY <1>2, <2>2
<1> DEFINE all == op[o].hits \cup found
           w == (Cardinality(all) <= n)
<1>5. all \subseteq Ids /\ kept \in IF w THEN {all} ELSE kSubset(n, all)
  BY <1>1, <1>3, <1>4 DEF Fuse, Request
<1>6. w \in BOOLEAN /\ n \in Nat
  BY MemoryAssumption
<1>7. op' = [op EXCEPT ![o] = [op[o] EXCEPT !.at = "fetch", !.limit = n, !.hits = kept,
                                            !.whole = w]]
  BY <1>3 DEF TypeOK
<1> HIDE DEF all, w
<1>8. kept \subseteq all /\ Cardinality(kept) <= n /\ (w => kept = all)
  <2>1. CASE w
    BY <1>5, <2>1 DEF w
  <2>2. CASE ~w
    BY <1>5, <1>6, <2>2 DEF kSubset
  <2> QED
    BY <2>1, <2>2
<1> DEFINE q == [op[o] EXCEPT !.at = "fetch", !.limit = n, !.hits = kept, !.whole = w]
<1>9. /\ q \in Request /\ q.at = "fetch" /\ q.dir = op[o].dir
      /\ q.silo = op[o].silo /\ q.limit = n /\ q.hits = kept /\ q.out = op[o].out
      /\ q.matching = op[o].matching /\ q.whole = w
  BY <1>1, <1>5, <1>6, <1>8 DEF Request, Phases
<1> HIDE DEF q
<1>10. op'[o] = q /\ op' \in [Ops -> Request] /\ \A e \in Ops \ {o} : op'[e] = op[e]
  BY <1>7, <1>9 DEF TypeOK, q
<1> QED
  BY <1>1, <1>8, <1>9, <1>10 DEF all

LEMMA FetchFields ==
    ASSUME TypeOK, NEW o \in Ops, NEW i \in Ids, Fetch(o, i) \/ FetchGone(o, i)
    PROVE  /\ op' \in [Ops -> Request] /\ op[o].at = "fetch" /\ op'[o].at = "fetch"
           /\ op'[o].dir = op[o].dir /\ op'[o].silo = op[o].silo
           /\ op'[o].limit = op[o].limit /\ op'[o].hits = op[o].hits \ {i}
           /\ op'[o].out = op[o].out \cup (IF Fetch(o, i) THEN {i} ELSE {})
           /\ op'[o].matching = op[o].matching /\ op'[o].whole = op[o].whole
           /\ \A e \in Ops \ {o} : op'[e] = op[e]
<1>1. CASE Fetch(o, i)
  <2>1. /\ op' = [op EXCEPT ![o].hits = @ \ {i}, ![o].out = @ \cup {i}]
        /\ op[o].at = "fetch"
    BY <1>1 DEF Fetch
  <2>2. /\ op' \in [Ops -> Request] /\ op'[o].at = "fetch"
        /\ op'[o].dir = op[o].dir /\ op'[o].silo = op[o].silo
        /\ op'[o].limit = op[o].limit /\ op'[o].hits = op[o].hits \ {i}
        /\ op'[o].out = op[o].out \cup {i}
        /\ op'[o].matching = op[o].matching /\ op'[o].whole = op[o].whole
        /\ \A e \in Ops \ {o} : op'[e] = op[e]
    <3> DEFINE q == [op[o] EXCEPT !.hits = op[o].hits \ {i}, !.out = op[o].out \cup {i}]
    <3>1. op[o] \in Request /\ op' = [op EXCEPT ![o] = q]
      BY <2>1 DEF TypeOK
    <3>2. /\ q \in Request /\ q.at = op[o].at /\ q.dir = op[o].dir
          /\ q.silo = op[o].silo /\ q.limit = op[o].limit
          /\ q.hits = op[o].hits \ {i} /\ q.out = op[o].out \cup {i}
          /\ q.matching = op[o].matching /\ q.whole = op[o].whole
      BY <3>1 DEF Request
    <3> HIDE DEF q
    <3> QED
      BY <2>1, <3>1, <3>2, ZenonT(60) DEF TypeOK
  <2> QED
    BY <1>1, <2>1, <2>2
<1>2. CASE FetchGone(o, i) /\ ~Fetch(o, i)
  BY <1>2 DEF FetchGone, TypeOK, Request
<1> QED
  BY <1>1, <1>2

-----------------------------------------------------------------------------
(***************************************************************************)
(* Types.  They need RowidInv, for a rowid to be left, and RequestInv.     *)
(***************************************************************************)
TypeInv == TypeOK /\ RowidInv /\ RequestInv

LEMMA TypeStep == TypeInv /\ [Next]_vars => TypeInv'
<1> SUFFICES ASSUME TypeOK, RowidInv, RequestInv, [Next]_vars PROVE TypeInv'
  BY DEF TypeInv
<1>1. CASE Start
  BY MemoryAssumption, <1>1 DEF Start, LoadCipher, TypeInv, TypeOK, RowidInv,
       RequestInv, history
<1>2. CASE StartFailed
  BY MemoryAssumption, <1>2 DEF StartFailed, LoadCipher, TypeInv, TypeOK,
       RowidInv, RequestInv, history
<1>3. CASE Stop
  <2>1. TypeOK'
    BY <1>3, StopFields DEF Stop, TypeOK, history
  <2> QED
    BY <1>3, <2>1, StopFields DEF Stop, TypeInv, RowidInv, RequestInv, history
<1>4. CASE Restart
  BY <1>4, NoRequestFields DEF Restart, TypeInv, TypeOK, RowidInv, RequestInv
<1>5. ASSUME NEW d \in Dirs, PatchDataDir(d) PROVE TypeInv'
  BY MemoryAssumption, <1>5 DEF PatchDataDir, TypeInv, TypeOK, RowidInv,
       RequestInv, history
<1>6. ASSUME NEW r, Forget(r) PROVE TypeInv'
  <2>1. store \in Dirs /\ Delete(store, r) /\ r.id \in Ids
    BY <1>6, ForgetFields, ZenonT(60) DEF Forget, Row
  <2>2. db' \in [Dirs -> Database] /\ \A d \in Dirs : db'[d].rows \subseteq db[d].rows
    BY <2>1, DeleteFields
  <2>3. forgotten' \subseteq Ids /\ raced' \subseteq Ids
    BY <1>6, <2>1 DEF Forget, TypeOK
  <2>4. TypeOK'
    BY <1>6, <2>2, <2>3, ForgetFields, ZenonT(60) DEF Forget, TypeOK
  <2>5. RowidInv'
    BY <1>6, <2>2 DEF Forget, RowidInv
  <2> QED
    BY <1>6, <2>4, <2>5, ForgetFields DEF TypeInv, RequestInv
<1>7. ASSUME NEW o \in Ops, NEW s \in Silos, NEW t \in Texts, Recall(o, s, t)
    PROVE TypeInv'
  <2>1. TypeOK'
    <3>1. UNCHANGED <<dataDir, store, cipher, db, history>>
      BY <1>7 DEF Recall
    <3>2. \A e \in Ops : op'[e].at = "fetch" => op'[e] = op[e]
      BY <1>7, RecallFields
    <3> QED
      BY <1>7, <3>1, <3>2, RecallFields DEF TypeOK, history
  <2>2. RequestInv'
    BY <1>7, RecallFields DEF RequestInv
  <2> QED
    BY <1>7, <2>1, <2>2 DEF Recall, TypeInv, RowidInv, history
<1>8. ASSUME NEW o \in Ops, NEW s \in Silos, NEW t \in Texts, NEW i \in Ids,
    Remember(o, s, t, i) PROVE TypeInv'
  <2>1. Insert(store, i, s, t) /\ drawn' = drawn \cup {i}
           /\ UNCHANGED <<dataDir, store, cipher, answered, forgotten, raced, patched>>
    BY <1>8 DEF Remember
  <2>2. /\ store \in Dirs /\ i \notin drawn /\ op' \in [Ops -> Request]
        /\ op'[o].at = "embed" /\ op'[o].dir = store
        /\ \A e \in Ops \ {o} : op'[e] = op[e]
    BY <1>8, RememberFields
  <2>3. /\ db' \in [Dirs -> Database]
        /\ \A d \in Dirs : \A r \in db'[d].rows : r \in db[d].rows \/ r.rowid = NextRowid(store)
    <3>0. PICK new \in Row : /\ new.rowid = NextRowid(store)
                             /\ db'[store].rows = db[store].rows \cup {new}
      BY <2>1, <2>2, InsertFields
    <3>1. \A r \in db'[store].rows : r \in db[store].rows \/ r.rowid = NextRowid(store)
      BY <3>0
    <3>2. db' \in [Dirs -> Database] /\ \A d \in Dirs \ {store} : db'[d] = db[d]
      BY <2>1, <2>2, InsertFields
    <3> QED
      BY <3>1, <3>2
  <2>4. TypeOK'
    BY <2>1, <2>2, <2>3 DEF TypeOK
  <2>5. RowidInv'
    <3>1. /\ Cardinality(drawn') = Cardinality(drawn) + 1 /\ Cardinality(drawn) \in Nat
          /\ NextRowid(store) <= Cardinality(drawn) + 1
      BY <2>1, <2>2, RowidFresh
    <3>2. \A d \in Dirs : \A r \in db[d].rows : r.rowid \in Nat
      BY <2>2, RowidFresh
    <3> QED
      BY <2>3, <3>1, <3>2 DEF RowidInv
  <2>6. RequestInv'
    BY <2>2 DEF RequestInv
  <2> QED
    BY <2>4, <2>5, <2>6 DEF TypeInv
<1>9. ASSUME NEW o \in Ops, EmbeddingSkipped(o) PROVE TypeInv'
  <2>1. op' = [op EXCEPT ![o] = NoRequest]
    BY <1>9 DEF EmbeddingSkipped, Answers
  <2>2. op' \in [Ops -> Request] /\ \A e \in Ops : op'[e] = op[e] \/ op'[e] = NoRequest
    BY <2>1, NoRequestFields DEF TypeOK
  <2>3. RequestInv' /\ \A e \in Ops : op'[e].at = "fetch" => op'[e] = op[e]
    BY <2>2, NoRequestFields DEF RequestInv
  <2>4. answered' \subseteq Ids \X Dirs
    BY <1>9 DEF EmbeddingSkipped, Answers, TypeOK, RequestInv, Request
  <2> QED
    BY <1>9, <2>2, <2>3, <2>4
      DEF EmbeddingSkipped, Answers, TypeInv, TypeOK, RowidInv
<1>10. ASSUME NEW o \in Ops, NEW m \in Models, PutEmbedding(o, m) PROVE
    TypeInv'
  <2>1. op' = [op EXCEPT ![o] = NoRequest]
    BY <1>10 DEF PutEmbedding, Answers
  <2>2. op' \in [Ops -> Request] /\ \A e \in Ops : op'[e] = op[e] \/ op'[e] = NoRequest
    BY <2>1, NoRequestFields DEF TypeOK
  <2>3. RequestInv' /\ \A e \in Ops : op'[e].at = "fetch" => op'[e] = op[e]
    BY <2>2, NoRequestFields DEF RequestInv
  <2>4. answered' \subseteq Ids \X Dirs
    BY <1>10 DEF PutEmbedding, Answers, TypeOK, RequestInv, Request
  <2>5. db' \in [Dirs -> Database] /\ \A d \in Dirs : db'[d].rows = db[d].rows
    BY <1>10, EmbeddingFields
  <2> QED
    BY <1>10, <2>2, <2>3, <2>4, <2>5
      DEF PutEmbedding, Answers, TypeInv, TypeOK, RowidInv
<1>11. ASSUME NEW o \in Ops, NEW n \in Limits, VectorSearch(o, n) PROVE
    TypeInv'
  <2>1. op'[o].hits \cup op'[o].out = op'[o].hits
    BY <1>11, VectorFields DEF RequestInv
  <2>2. \A e \in Ops : op'[e].at = "fetch" =>
           Cardinality(op'[e].hits \cup op'[e].out) <= op'[e].limit
    <3>1. Cardinality(op'[o].hits \cup op'[o].out) <= op'[o].limit
      BY <1>11, <2>1, VectorFields
    <3>2. \A e \in Ops \ {o} : op'[e] = op[e]
      BY <1>11, VectorFields
    <3> QED
      BY <3>1, <3>2 DEF TypeOK
  <2>3. TypeOK'
    BY <1>11, <2>2, VectorFields DEF VectorSearch, TypeOK, history
  <2>4. RequestInv'
    BY <1>11, VectorFields DEF RequestInv
  <2> QED
    BY <1>11, <2>3, <2>4 DEF VectorSearch, TypeInv, RowidInv, history
<1>12. ASSUME NEW o \in Ops, RecallReturns(o) PROVE TypeInv'
  <2>1. op' = [op EXCEPT ![o] = NoRequest]
    BY <1>12 DEF RecallReturns
  <2>2. op' \in [Ops -> Request] /\ \A e \in Ops : op'[e] = op[e] \/ op'[e] = NoRequest
    BY <2>1, NoRequestFields DEF TypeOK
  <2>3. RequestInv' /\ \A e \in Ops : op'[e].at = "fetch" => op'[e] = op[e]
    BY <2>2, NoRequestFields DEF RequestInv
  <2> QED
    BY <1>12, <2>2, <2>3 DEF RecallReturns, TypeInv, TypeOK, RowidInv, history
<1>13. ASSUME NEW o \in Ops, NEW i \in Ids, Fetch(o, i) PROVE TypeInv'
  <2>1. \A e \in Ops : op'[e].at = "fetch" =>
           Cardinality(op'[e].hits \cup op'[e].out) <= op'[e].limit
    <3>0. i \in op[o].hits
      BY <1>13 DEF Fetch, FetchGone
    <3>1. op'[o].hits \cup op'[o].out \in SUBSET (op[o].hits \cup op[o].out)
      BY <1>13, <3>0, FetchFields
    <3>2. IsFiniteSet(op[o].hits \cup op[o].out)
      BY MemoryAssumption, FS_Subset DEF TypeOK, Request
    <3>3. /\ Cardinality(op'[o].hits \cup op'[o].out)
                 <= Cardinality(op[o].hits \cup op[o].out)
          /\ Cardinality(op'[o].hits \cup op'[o].out) \in Nat
          /\ Cardinality(op[o].hits \cup op[o].out) \in Nat
      BY <3>1, <3>2, FS_Subset, FS_CardinalityType
    <3>4. op[o].limit \in Limits \cup {0}
      BY DEF TypeOK, Request
    <3>5. op[o].limit \in Nat
      BY <3>4, MemoryAssumption
    <3>6. /\ op[o].at = "fetch" /\ op'[o].limit = op[o].limit
          /\ \A e \in Ops \ {o} : op'[e] = op[e]
      BY <1>13, FetchFields
    <3>7. Cardinality(op'[o].hits \cup op'[o].out) <= op'[o].limit
      BY <3>3, <3>5, <3>6 DEF TypeOK
    <3> QED
      BY <3>6, <3>7 DEF TypeOK
  <2>2. TypeOK'
    BY <1>13, <2>1, FetchFields DEF Fetch, TypeOK, history
  <2>3. RequestInv'
    BY <1>13, FetchFields DEF RequestInv
  <2> QED
    BY <1>13, <2>2, <2>3 DEF Fetch, TypeInv, RowidInv, history
<1>14. ASSUME NEW o \in Ops, NEW i \in Ids, FetchGone(o, i) PROVE TypeInv'
  <2>1. \A e \in Ops : op'[e].at = "fetch" =>
           Cardinality(op'[e].hits \cup op'[e].out) <= op'[e].limit
    <3>0. i \in op[o].hits
      BY <1>14 DEF Fetch, FetchGone
    <3>1. op'[o].hits \cup op'[o].out \in SUBSET (op[o].hits \cup op[o].out)
      BY <1>14, <3>0, FetchFields
    <3>2. IsFiniteSet(op[o].hits \cup op[o].out)
      BY MemoryAssumption, FS_Subset DEF TypeOK, Request
    <3>3. /\ Cardinality(op'[o].hits \cup op'[o].out)
                 <= Cardinality(op[o].hits \cup op[o].out)
          /\ Cardinality(op'[o].hits \cup op'[o].out) \in Nat
          /\ Cardinality(op[o].hits \cup op[o].out) \in Nat
      BY <3>1, <3>2, FS_Subset, FS_CardinalityType
    <3>4. op[o].limit \in Limits \cup {0}
      BY DEF TypeOK, Request
    <3>5. op[o].limit \in Nat
      BY <3>4, MemoryAssumption
    <3>6. /\ op[o].at = "fetch" /\ op'[o].limit = op[o].limit
          /\ \A e \in Ops \ {o} : op'[e] = op[e]
      BY <1>14, FetchFields
    <3>7. Cardinality(op'[o].hits \cup op'[o].out) <= op'[o].limit
      BY <3>3, <3>5, <3>6 DEF TypeOK
    <3> QED
      BY <3>6, <3>7 DEF TypeOK
  <2>2. TypeOK'
    BY <1>14, <2>1, FetchFields DEF FetchGone, TypeOK, history
  <2>3. RequestInv'
    BY <1>14, FetchFields DEF RequestInv
  <2> QED
    BY <1>14, <2>2, <2>3 DEF FetchGone, TypeInv, RowidInv, history
<1>15. ASSUME NEW o \in Ops, NEW i \in Ids, FetchFailed(o, i) PROVE TypeInv'
  <2>1. op' = [op EXCEPT ![o] = NoRequest]
    BY <1>15 DEF FetchFailed
  <2>2. op' \in [Ops -> Request] /\ \A e \in Ops : op'[e] = op[e] \/ op'[e] = NoRequest
    BY <2>1, NoRequestFields DEF TypeOK
  <2>3. RequestInv' /\ \A e \in Ops : op'[e].at = "fetch" => op'[e] = op[e]
    BY <2>2, NoRequestFields DEF RequestInv
  <2> QED
    BY <1>15, <2>2, <2>3 DEF FetchFailed, TypeInv, TypeOK, RowidInv, history
<1>16. CASE UNCHANGED vars
  BY MemoryAssumption, <1>16 DEF vars, TypeInv, TypeOK, RowidInv, RequestInv,
       history
<1> QED
  BY <1>1, <1>2, <1>3, <1>4, <1>5, <1>6, <1>7, <1>8, <1>9, <1>10, <1>11,
       <1>12, <1>13, <1>14, <1>15, <1>16 DEF Next, Serve

LEMMA TypeInvCorrect == Spec => []TypeInv
<1>1. Init => TypeInv
  <2> SUFFICES ASSUME Init PROVE TypeInv
    OBVIOUS
  <2>1. db \in [Dirs -> Database]
    BY DEF Init, Database
  <2>2. TypeOK
    BY <2>1, NoRequestFields DEF Init, TypeOK
  <2> QED
    BY <2>2, NoRequestFields DEF Init, TypeInv, RowidInv, RequestInv
<1> QED
  BY <1>1, TypeStep, PTL DEF Spec

\* The databases and the requests of Capability keep their types: NextRowid has a
\* row to number, and a request under way a store it was begun on.
THEOREM TypeCorrect == Spec => []TypeOK
<1>1. TypeInv => TypeOK
  BY DEF TypeInv
<1> QED
  BY <1>1, TypeInvCorrect, PTL

-----------------------------------------------------------------------------
(***************************************************************************)
(* Keys.                                                                   *)
(***************************************************************************)
LEMMA KeyStep == TypeOK /\ KeyInv /\ [Next]_vars => KeyInv'
<1> SUFFICES ASSUME TypeOK, KeyInv, [Next]_vars PROVE KeyInv'
  OBVIOUS
<1>1. CASE Start
  BY MemoryAssumption, <1>1 DEF Start, LoadCipher, KeyInv, TypeOK, history
<1>2. CASE StartFailed
  BY MemoryAssumption, <1>2 DEF StartFailed, LoadCipher, KeyInv, TypeOK,
       history
<1>3. CASE Stop
  BY MemoryAssumption, <1>3 DEF Stop, KeyInv, TypeOK, history
<1>4. CASE Restart
  BY MemoryAssumption, <1>4 DEF Restart, KeyInv, TypeOK, history
<1>5. ASSUME NEW d \in Dirs, PatchDataDir(d) PROVE KeyInv'
  BY MemoryAssumption, <1>5 DEF PatchDataDir, KeyInv, TypeOK, history
<1>6. ASSUME NEW r, Forget(r) PROVE KeyInv'
  BY MemoryAssumption, <1>6 DEF Forget, KeyInv, TypeOK, history
<1>7. ASSUME NEW o \in Ops, NEW s \in Silos, NEW t \in Texts, Recall(o, s, t)
    PROVE KeyInv'
  BY MemoryAssumption, <1>7 DEF Recall, KeyInv, TypeOK, history
<1>8. ASSUME NEW o \in Ops, NEW s \in Silos, NEW t \in Texts, NEW i \in Ids,
    Remember(o, s, t, i) PROVE KeyInv'
  BY MemoryAssumption, <1>8 DEF Remember, KeyInv, TypeOK, history
<1>9. ASSUME NEW o \in Ops, EmbeddingSkipped(o) PROVE KeyInv'
  BY MemoryAssumption, <1>9 DEF EmbeddingSkipped, Answers, KeyInv, TypeOK,
       history
<1>10. ASSUME NEW o \in Ops, NEW m \in Models, PutEmbedding(o, m) PROVE
    KeyInv'
  BY MemoryAssumption, <1>10 DEF PutEmbedding, Answers, KeyInv, TypeOK,
       history
<1>11. ASSUME NEW o \in Ops, NEW n \in Limits, VectorSearch(o, n) PROVE
    KeyInv'
  BY MemoryAssumption, <1>11 DEF VectorSearch, KeyInv, TypeOK, history
<1>12. ASSUME NEW o \in Ops, RecallReturns(o) PROVE KeyInv'
  BY MemoryAssumption, <1>12 DEF RecallReturns, KeyInv, TypeOK, history
<1>13. ASSUME NEW o \in Ops, NEW i \in Ids, Fetch(o, i) PROVE KeyInv'
  BY MemoryAssumption, <1>13 DEF Fetch, KeyInv, TypeOK, history
<1>14. ASSUME NEW o \in Ops, NEW i \in Ids, FetchGone(o, i) PROVE KeyInv'
  BY MemoryAssumption, <1>14 DEF FetchGone, KeyInv, TypeOK, history
<1>15. ASSUME NEW o \in Ops, NEW i \in Ids, FetchFailed(o, i) PROVE KeyInv'
  BY MemoryAssumption, <1>15 DEF FetchFailed, KeyInv, TypeOK, history
<1>16. CASE UNCHANGED vars
  BY MemoryAssumption, <1>16 DEF vars, KeyInv, TypeOK, history
<1> QED
  BY <1>1, <1>2, <1>3, <1>4, <1>5, <1>6, <1>7, <1>8, <1>9, <1>10, <1>11,
       <1>12, <1>13, <1>14, <1>15, <1>16 DEF Next, Serve

LEMMA KeyInvCorrect == Spec => []KeyInv
<1>1. Init => KeyInv
  BY DEF Init, KeyInv
<1> QED
  BY <1>1, KeyStep, TypeCorrect, PTL DEF Spec

\* The steps that leave the rows of every database as they are, or only take
\* some away.
LEMMA NoNewRows ==
    ASSUME TypeInv, Next, NEW d \in Dirs,
           ~ \E o \in Ops, s \in Silos, t \in Texts, i \in Ids : Remember(o, s, t, i)
    PROVE  db'[d].rows \subseteq db[d].rows
<1> USE DEF TypeInv
<1>1. CASE Start
  BY <1>1 DEF Start, LoadCipher
<1>2. CASE StartFailed
  BY <1>2 DEF StartFailed, LoadCipher
<1>3. CASE Stop
  BY <1>3 DEF Stop
<1>4. CASE Restart
  BY <1>4 DEF Restart
<1>5. ASSUME NEW c \in Dirs, PatchDataDir(c) PROVE db'[d].rows \subseteq
    db[d].rows
  BY <1>5 DEF PatchDataDir
<1>6. ASSUME NEW r, Forget(r) PROVE db'[d].rows \subseteq db[d].rows
  <2>1. store \in Dirs /\ Delete(store, r)
    BY <1>6, ForgetFields DEF Forget
  <2> QED
    BY <2>1, DeleteFields
<1>7. ASSUME NEW o \in Ops, NEW s \in Silos, NEW t \in Texts, Recall(o, s, t)
    PROVE db'[d].rows \subseteq db[d].rows
  BY <1>7 DEF Recall
<1>8. ASSUME NEW o \in Ops, EmbeddingSkipped(o) PROVE db'[d].rows \subseteq
    db[d].rows
  BY <1>8 DEF EmbeddingSkipped, Answers
<1>9. ASSUME NEW o \in Ops, NEW m \in Models, PutEmbedding(o, m) PROVE
    db'[d].rows \subseteq db[d].rows
  BY <1>9, EmbeddingFields
<1>10. ASSUME NEW o \in Ops, NEW n \in Limits, VectorSearch(o, n) PROVE
    db'[d].rows \subseteq db[d].rows
  BY <1>10 DEF VectorSearch
<1>11. ASSUME NEW o \in Ops, RecallReturns(o) PROVE db'[d].rows \subseteq
    db[d].rows
  BY <1>11 DEF RecallReturns
<1>12. ASSUME NEW o \in Ops, NEW i \in Ids, Fetch(o, i) PROVE db'[d].rows
    \subseteq db[d].rows
  BY <1>12 DEF Fetch
<1>13. ASSUME NEW o \in Ops, NEW i \in Ids, FetchGone(o, i) PROVE db'[d].rows
    \subseteq db[d].rows
  BY <1>13 DEF FetchGone
<1>14. ASSUME NEW o \in Ops, NEW i \in Ids, FetchFailed(o, i) PROVE
    db'[d].rows \subseteq db[d].rows
  BY <1>14 DEF FetchFailed
<1> QED
  BY <1>1, <1>2, <1>3, <1>4, <1>5, <1>6, <1>7, <1>8, <1>9, <1>10, <1>11,
       <1>12, <1>13, <1>14 DEF Next, Serve

LEMMA KeyedStep ==
    ASSUME TypeInv, KeyInv, [Next]_vars
    PROVE  [\A d \in Dirs : \A r \in db'[d].rows \ db[d].rows :
               r.key = d \/ (patched /\ r.key # Plain)]_vars
<1> SUFFICES ASSUME Next, NEW d \in Dirs, NEW r \in db'[d].rows \ db[d].rows
             PROVE  r.key = d \/ (patched /\ r.key # Plain)
  OBVIOUS
<1> USE DEF TypeInv
<1>1. PICK o \in Ops, s \in Silos, t \in Texts, i \in Ids : Remember(o, s, t, i)
  BY NoNewRows
<1>2. /\ Insert(store, i, s, t) /\ store \in Dirs /\ store # NoDir /\ i \notin drawn
  BY <1>1, RememberFields DEF Remember
<1>3. PICK new \in Row : new.key = cipher /\ db'[store].rows = db[store].rows \cup {new}
  BY <1>2, InsertFields
<1>4. d # store => db'[d].rows = db[d].rows
  BY <1>2, InsertFields
<1>5. d = store /\ r = new
  BY <1>3, <1>4
<1>6. r.key = cipher
  BY <1>3, <1>5
<1> QED
  BY <1>2, <1>5, <1>6 DEF KeyInv

(***************************************************************************)
(* A new row is sealed with the key of the directory whose database it is  *)
(* in, or data_dir was changed under the process, and never with none:     *)
(* Capability.Start loads the cipher before it opens the store, and        *)
(* Remember seals with what Start loaded.                                  *)
(***************************************************************************)
THEOREM KeyedCorrect == Spec => KeyedByDataDir
<1>1. TypeInv /\ KeyInv /\ [Next]_vars =>
        [\A d \in Dirs : \A r \in db'[d].rows \ db[d].rows :
            r.key = d \/ (patched /\ r.key # Plain)]_vars
  BY KeyedStep
<1> QED
  BY <1>1, TypeInvCorrect, KeyInvCorrect, PTL DEF Spec, KeyedByDataDir

-----------------------------------------------------------------------------
(***************************************************************************)
(* The mirror.  A rowid that is given again is not one in use, so that a   *)
(* deletion takes away one entry and an insertion adds one of its own.     *)
(***************************************************************************)
LEMMA MirrorStep == TypeInv /\ MirrorInv /\ [Next]_vars => MirrorInv'
<1> SUFFICES ASSUME TypeOK, RowidInv, RequestInv, MirrorInv, [Next]_vars
             PROVE  MirrorInv'
  BY DEF TypeInv
<1>1. CASE Start
  BY <1>1 DEF Start, LoadCipher, MirrorInv
<1>2. CASE StartFailed
  BY <1>2 DEF StartFailed, LoadCipher, MirrorInv
<1>3. CASE Stop
  BY <1>3 DEF Stop, MirrorInv
<1>4. CASE Restart
  BY <1>4 DEF Restart, MirrorInv
<1>5. ASSUME NEW d \in Dirs, PatchDataDir(d) PROVE MirrorInv'
  BY <1>5 DEF PatchDataDir, MirrorInv
<1>6. ASSUME NEW r, Forget(r) PROVE MirrorInv'
  <2>1. store \in Dirs /\ Delete(store, r) /\ r \in db[store].rows
    BY <1>6, ForgetFields DEF Forget
  <2>2. /\ db'[store].rows = db[store].rows \ {r}
        /\ db'[store].fts = {e \in db[store].fts : e.rowid # r.rowid}
        /\ \A e \in Dirs \ {store} : db'[e] = db[e]
    BY <2>1, DeleteFields
  <2>3. SUFFICES ASSUME NEW d \in Dirs, NEW p \in db'[d].rows
                 PROVE  /\ [rowid |-> p.rowid, text |-> p.text] \in db'[d].fts
                        /\ \A q \in db'[d].rows : q.rowid = p.rowid => q = p
    BY DEF MirrorInv
  <2>4. CASE d = store
    <3>1. p.rowid # r.rowid
      BY <2>1, <2>2, <2>4 DEF MirrorInv
    <3>2. [rowid |-> p.rowid, text |-> p.text] \in db[store].fts
      BY <2>2, <2>4 DEF MirrorInv
    <3>3. [rowid |-> p.rowid, text |-> p.text].rowid = p.rowid
      OBVIOUS
    <3> QED
      BY <2>2, <2>4, <3>1, <3>2, <3>3 DEF MirrorInv
  <2> QED
    BY <2>2, <2>4 DEF MirrorInv
<1>7. ASSUME NEW o \in Ops, NEW s \in Silos, NEW t \in Texts, Recall(o, s, t)
    PROVE MirrorInv'
  BY <1>7 DEF Recall, MirrorInv
<1>8. ASSUME NEW o \in Ops, NEW s \in Silos, NEW t \in Texts, NEW i \in Ids,
    Remember(o, s, t, i) PROVE MirrorInv'
  <2>1. /\ Insert(store, i, s, t) /\ store \in Dirs /\ i \notin drawn
    BY <1>8, RememberFields DEF Remember
  <2>2. PICK new \in Row : /\ new.rowid = NextRowid(store) /\ new.text = t
                           /\ db'[store].rows = db[store].rows \cup {new}
    BY <2>1, InsertFields
  <2>3. /\ db'[store].fts = db[store].fts \cup {[rowid |-> NextRowid(store), text |-> t]}
        /\ \A e \in Dirs \ {store} : db'[e] = db[e]
    BY <2>1, InsertFields
  <2>4. \A r \in db[store].rows : r.rowid \in Nat /\ r.rowid < NextRowid(store)
    BY <2>1, RowidFresh
  <2>5. NextRowid(store) \in Nat
    <3>1. NextRowid(store) \in Rowids
      BY <2>1, RowidFresh
    <3> QED
      BY <3>1, MemoryAssumption, FS_CardinalityType DEF Rowids
  <2>6. \A r \in db[store].rows : r.rowid # new.rowid
    BY <2>2, <2>4, <2>5
  <2>7. SUFFICES ASSUME NEW d \in Dirs, NEW p \in db'[d].rows
                 PROVE  /\ [rowid |-> p.rowid, text |-> p.text] \in db'[d].fts
                        /\ \A q \in db'[d].rows : q.rowid = p.rowid => q = p
    BY DEF MirrorInv
  <2>8. CASE d = store
    BY <2>2, <2>3, <2>6, <2>8 DEF MirrorInv
  <2> QED
    BY <2>3, <2>8 DEF MirrorInv
<1>9. ASSUME NEW o \in Ops, EmbeddingSkipped(o) PROVE MirrorInv'
  BY <1>9 DEF EmbeddingSkipped, Answers, MirrorInv
<1>10. ASSUME NEW o \in Ops, NEW m \in Models, PutEmbedding(o, m) PROVE
    MirrorInv'
  <2>1. \A d \in Dirs : db'[d].rows = db[d].rows /\ db'[d].fts = db[d].fts
    BY <1>10, EmbeddingFields
  <2> QED
    BY <2>1 DEF MirrorInv
<1>11. ASSUME NEW o \in Ops, NEW n \in Limits, VectorSearch(o, n) PROVE
    MirrorInv'
  BY <1>11 DEF VectorSearch, MirrorInv
<1>12. ASSUME NEW o \in Ops, RecallReturns(o) PROVE MirrorInv'
  BY <1>12 DEF RecallReturns, MirrorInv
<1>13. ASSUME NEW o \in Ops, NEW i \in Ids, Fetch(o, i) PROVE MirrorInv'
  BY <1>13 DEF Fetch, MirrorInv
<1>14. ASSUME NEW o \in Ops, NEW i \in Ids, FetchGone(o, i) PROVE MirrorInv'
  BY <1>14 DEF FetchGone, MirrorInv
<1>15. ASSUME NEW o \in Ops, NEW i \in Ids, FetchFailed(o, i) PROVE MirrorInv'
  BY <1>15 DEF FetchFailed, MirrorInv
<1>16. CASE UNCHANGED vars
  BY <1>16 DEF vars, MirrorInv
<1> QED
  BY <1>1, <1>2, <1>3, <1>4, <1>5, <1>6, <1>7, <1>8, <1>9, <1>10, <1>11,
       <1>12, <1>13, <1>14, <1>15, <1>16 DEF Next, Serve

LEMMA MirrorCorrect == Spec => []MirrorInv
<1>1. Init => MirrorInv
  BY DEF Init, MirrorInv
<1> QED
  BY <1>1, MirrorStep, TypeInvCorrect, PTL DEF Spec

-----------------------------------------------------------------------------
(***************************************************************************)
(* Recall.                                                                 *)
(***************************************************************************)
\* RecallInv of one request.
RecallOf(o) ==
    /\ op[o].at \in {"search", "fetch"} =>
          \A i \in op[o].matching :
              \E r \in db[op[o].dir].rows : r.id = i /\ r.silo = op[o].silo
    /\ op[o].at = "search" => op[o].matching \subseteq op[o].hits
    /\ op[o].at = "fetch" /\ op[o].whole =>
          op[o].matching \subseteq op[o].hits \cup op[o].out

\* Nothing about it changes when its request stays and no row is taken away.
LEMMA RecallKept ==
    ASSUME TypeInv, NEW o \in Ops, RecallOf(o), op'[o].at = op[o].at,
           op'[o].dir = op[o].dir, op'[o].silo = op[o].silo, op'[o].hits = op[o].hits,
           op'[o].out = op[o].out, op'[o].matching = op[o].matching,
           op'[o].whole = op[o].whole,
           \A d \in Dirs : db[d].rows \subseteq db'[d].rows
    PROVE  RecallOf(o)'
<1>1. op[o].at # "none" => op[o].dir \in Dirs
  BY DEF TypeInv, RequestInv
<1> QED
  BY <1>1 DEF RecallOf

LEMMA RecallStep == TypeInv /\ MirrorInv /\ RecallInv /\ [Next]_vars => RecallInv'
<1> SUFFICES ASSUME TypeInv, MirrorInv, \A e \in Ops : RecallOf(e), [Next]_vars
             PROVE  \A e \in Ops : RecallOf(e)'
  BY DEF RecallInv, RecallOf
<1> USE DEF TypeInv
<1>1. CASE Start
  BY RecallKept, <1>1 DEF Start, LoadCipher
<1>2. CASE StartFailed
  BY RecallKept, <1>2 DEF StartFailed, LoadCipher
<1>3. CASE Stop
  BY <1>3, StopFields, RecallKept DEF Stop
<1>4. CASE Restart
  BY <1>4, NoRequestFields DEF Restart, RecallOf
<1>5. ASSUME NEW d \in Dirs, PatchDataDir(d) PROVE \A e \in Ops : RecallOf(e)'
  BY RecallKept, <1>5 DEF PatchDataDir
<1>6. ASSUME NEW r, Forget(r) PROVE \A e \in Ops : RecallOf(e)'
  <2>1. store \in Dirs /\ Delete(store, r)
    BY <1>6, ForgetFields DEF Forget
  <2>2. \A d \in Dirs : db[d].rows \ {r} \subseteq db'[d].rows
    BY <2>1, DeleteFields
  <2>3. SUFFICES ASSUME NEW o \in Ops PROVE RecallOf(o)'
    OBVIOUS
  <2>4. /\ op'[o].at = op[o].at /\ op'[o].dir = op[o].dir /\ op'[o].silo = op[o].silo
        /\ op'[o].hits = op[o].hits /\ op'[o].out = op[o].out
        /\ op'[o].matching = op[o].matching \ {r.id} /\ op'[o].whole = op[o].whole
    BY <1>6, ForgetFields
  <2>5. op[o].at # "none" => op[o].dir \in Dirs
    BY DEF RequestInv
  <2>6. ASSUME op'[o].at \in {"search", "fetch"}, NEW i \in op'[o].matching
        PROVE  \E q \in db'[op'[o].dir].rows : q.id = i /\ q.silo = op'[o].silo
    <3>1. PICK q \in db[op[o].dir].rows : q.id = i /\ q.silo = op[o].silo
      BY <2>4, <2>6 DEF RecallOf
    <3>2. q # r /\ op[o].dir \in Dirs
      BY <2>4, <2>5, <2>6, <3>1
    <3> QED
      BY <2>2, <2>4, <3>1, <3>2
  <2> QED
    BY <2>4, <2>6 DEF RecallOf
<1>7. ASSUME NEW o \in Ops, NEW s \in Silos, NEW t \in Texts, Recall(o, s, t)
    PROVE \A e \in Ops : RecallOf(e)'
  <2>1. /\ store \in Dirs /\ UNCHANGED db /\ \A e \in Ops \ {o} : op'[e] = op[e]
    BY <1>7, RecallFields DEF Recall
  <2>2. /\ op'[o].at = "search" /\ op'[o].dir = store /\ op'[o].silo = s
        /\ op'[o].hits = KeywordSearch(store, s, t)
        /\ op'[o].matching = {r.id : r \in {x \in db[store].rows :
                                              x.silo = s /\ x.text = t}}
    BY <1>7, RecallFields
  <2>3. \A r \in db[store].rows : r.silo = s /\ r.text = t =>
           r.id \in KeywordSearch(store, s, t)
    BY <2>1 DEF MirrorInv, KeywordSearch
  <2>4. RecallOf(o)'
    BY <2>1, <2>2, <2>3 DEF RecallOf
  <2> QED
    BY <2>1, <2>4, RecallKept, SMTT(40)
<1>8. ASSUME NEW o \in Ops, NEW s \in Silos, NEW t \in Texts, NEW i \in Ids,
    Remember(o, s, t, i) PROVE \A e \in Ops : RecallOf(e)'
  <2>1. /\ Insert(store, i, s, t) /\ store \in Dirs /\ i \notin drawn
        /\ op'[o].at = "embed" /\ \A e \in Ops \ {o} : op'[e] = op[e]
    BY <1>8, RememberFields DEF Remember
  <2>2. \A d \in Dirs : db[d].rows \subseteq db'[d].rows
    BY <2>1, InsertFields
  <2>3. RecallOf(o)'
    BY <2>1 DEF RecallOf
  <2> QED
    BY <2>1, <2>2, <2>3, RecallKept
<1>9. ASSUME NEW o \in Ops, EmbeddingSkipped(o) PROVE \A e \in Ops :
    RecallOf(e)'
  <2>1. op' = [op EXCEPT ![o] = NoRequest] /\ \A d \in Dirs : db'[d].rows = db[d].rows
    BY <1>9 DEF EmbeddingSkipped, Answers
  <2>2. RecallOf(o)'
    BY <2>1, NoRequestFields DEF RecallOf, TypeOK
  <2>3. \A e \in Ops \ {o} : op'[e] = op[e]
    BY <2>1 DEF TypeOK
  <2> QED
    BY <2>1, <2>2, <2>3, RecallKept
<1>10. ASSUME NEW o \in Ops, NEW m \in Models, PutEmbedding(o, m) PROVE \A e
    \in Ops : RecallOf(e)'
  <2>1. op' = [op EXCEPT ![o] = NoRequest] /\ \A d \in Dirs : db'[d].rows = db[d].rows
    BY <1>10, EmbeddingFields DEF PutEmbedding, Answers
  <2>2. RecallOf(o)'
    BY <2>1, NoRequestFields DEF RecallOf, TypeOK
  <2>3. \A e \in Ops \ {o} : op'[e] = op[e]
    BY <2>1 DEF TypeOK
  <2> QED
    BY <2>1, <2>2, <2>3, RecallKept, SMTT(40)
<1>11. ASSUME NEW o \in Ops, NEW n \in Limits, VectorSearch(o, n) PROVE \A e
    \in Ops : RecallOf(e)'
  <2>1. /\ op[o].at = "search" /\ op'[o].at = "fetch" /\ op'[o].dir = op[o].dir
        /\ op'[o].silo = op[o].silo /\ op'[o].matching = op[o].matching
        /\ op'[o].whole => op[o].hits \subseteq op'[o].hits
        /\ \A e \in Ops \ {o} : op'[e] = op[e]
    BY <1>11, VectorFields
  <2>2. UNCHANGED db
    BY <1>11 DEF VectorSearch
  <2>3. RecallOf(o)'
    BY <2>1, <2>2 DEF RecallOf
  <2> QED
    BY <2>1, <2>2, <2>3, RecallKept
<1>12. ASSUME NEW o \in Ops, RecallReturns(o) PROVE \A e \in Ops :
    RecallOf(e)'
  <2>1. op' = [op EXCEPT ![o] = NoRequest] /\ \A d \in Dirs : db'[d].rows = db[d].rows
    BY <1>12 DEF RecallReturns
  <2>2. RecallOf(o)'
    BY <2>1, NoRequestFields DEF RecallOf, TypeOK
  <2>3. \A e \in Ops \ {o} : op'[e] = op[e]
    BY <2>1 DEF TypeOK
  <2> QED
    BY <2>1, <2>2, <2>3, RecallKept
<1>13. ASSUME NEW o \in Ops, NEW i \in Ids, Fetch(o, i) PROVE \A e \in Ops :
    RecallOf(e)'
  <2>1. /\ op[o].at = "fetch" /\ op'[o].at = "fetch" /\ op'[o].dir = op[o].dir
        /\ op'[o].silo = op[o].silo /\ op'[o].hits = op[o].hits \ {i}
        /\ op'[o].matching = op[o].matching /\ op'[o].whole = op[o].whole
        /\ op[o].out \subseteq op'[o].out
        /\ \A e \in Ops \ {o} : op'[e] = op[e]
    BY <1>13, FetchFields
  <2>2. UNCHANGED db
    BY <1>13 DEF Fetch
  <2>3. i \in op'[o].out
    BY <1>13, FetchFields
  <2>4. RecallOf(o)'
    BY <2>1, <2>2, <2>3 DEF RecallOf
  <2> QED
    BY <2>1, <2>2, <2>4, RecallKept
<1>14. ASSUME NEW o \in Ops, NEW i \in Ids, FetchGone(o, i) PROVE \A e \in Ops
    : RecallOf(e)'
  <2>1. /\ op[o].at = "fetch" /\ op'[o].at = "fetch" /\ op'[o].dir = op[o].dir
        /\ op'[o].silo = op[o].silo /\ op'[o].hits = op[o].hits \ {i}
        /\ op'[o].matching = op[o].matching /\ op'[o].whole = op[o].whole
        /\ op[o].out \subseteq op'[o].out
        /\ \A e \in Ops \ {o} : op'[e] = op[e]
    BY <1>14, FetchFields
  <2>2. UNCHANGED db
    BY <1>14 DEF FetchGone
  <2>3. i \notin op[o].matching
    BY <1>14, <2>1 DEF FetchGone, Stored, RecallOf
  <2>4. RecallOf(o)'
    BY <2>1, <2>2, <2>3 DEF RecallOf
  <2> QED
    BY <2>1, <2>2, <2>4, RecallKept
<1>15. ASSUME NEW o \in Ops, NEW i \in Ids, FetchFailed(o, i) PROVE \A e \in
    Ops : RecallOf(e)'
  <2>1. op' = [op EXCEPT ![o] = NoRequest] /\ \A d \in Dirs : db'[d].rows = db[d].rows
    BY <1>15 DEF FetchFailed
  <2>2. RecallOf(o)'
    BY <2>1, NoRequestFields DEF RecallOf, TypeOK
  <2>3. \A e \in Ops \ {o} : op'[e] = op[e]
    BY <2>1 DEF TypeOK
  <2> QED
    BY <2>1, <2>2, <2>3, RecallKept
<1>16. CASE UNCHANGED vars
  BY RecallKept, <1>16 DEF vars
<1> QED
  BY <1>1, <1>2, <1>3, <1>4, <1>5, <1>6, <1>7, <1>8, <1>9, <1>10, <1>11,
       <1>12, <1>13, <1>14, <1>15, <1>16 DEF Next, Serve

LEMMA RecallInvCorrect == Spec => []RecallInv
<1>1. Init => RecallInv
  BY NoRequestFields DEF Init, RecallInv
<1> QED
  BY <1>1, RecallStep, TypeInvCorrect, MirrorCorrect, PTL DEF Spec

(***************************************************************************)
(* A recall that cut nothing off returns every matching memory that was    *)
(* there throughout, for any number of requests, memories and directories: *)
(* the mirror is exact although rowids are reused (Store.Insert, Delete),  *)
(* and a hit that Get does not find was forgotten (Capability.Recall).     *)
(***************************************************************************)
THEOREM RecallCorrect == Spec => []RecallExact
<1>1. RecallInv => RecallExact
  BY DEF RecallInv, RecallExact, Complete
<1> QED
  BY <1>1, RecallInvCorrect, PTL

-----------------------------------------------------------------------------
(***************************************************************************)
(* Embeddings, and memories that were answered.                            *)
(***************************************************************************)
\* A memory is stored, in some row.
Has(d, i) == \E r \in db[d].rows : r.id = i

\* EmbedInv, with the rows left out of sight.
LEMMA EmbedParts ==
    EmbedInv <=>
       /\ raced \subseteq forgotten
       /\ \A o \in Ops : op[o].at = "embed" =>
             \A i \in op[o].hits : i \in raced \/ Has(op[o].dir, i)
       /\ \A d \in Dirs : \A e \in db[d].emb : e.id \in raced \/ Has(d, e.id)
       /\ \A a \in answered : a[1] \in forgotten \/ Has(a[2], a[1])
  BY DEF EmbedInv, EmbeddingsOwned, RememberedKept, Has

\* Steps that only add rows, and begin or end no Remember.
LEMMA EmbedKept ==
    ASSUME TypeInv, EmbedInv, UNCHANGED <<answered, forgotten, raced>>,
           \A d \in Dirs : db[d].rows \subseteq db'[d].rows /\ db'[d].emb = db[d].emb,
           \A o \in Ops : op'[o].at = "embed" =>
              op[o].at = "embed" /\ op'[o].hits = op[o].hits /\ op'[o].dir = op[o].dir
    PROVE  EmbedInv'
<1>1. /\ \A o \in Ops : op[o].at = "embed" => op[o].dir \in Dirs
      /\ answered \subseteq Ids \X Dirs
  BY DEF TypeInv, RequestInv, TypeOK
<1>2. \A d \in Dirs : \A i : Has(d, i) => Has(d, i)'
  BY DEF Has
<1>3. (raced \subseteq forgotten)'
  BY EmbedParts
<1>4. ASSUME NEW o \in Ops, op'[o].at = "embed", NEW i \in op'[o].hits
      PROVE  i \in raced' \/ Has(op[o].dir, i)'
  BY <1>1, <1>2, <1>4, EmbedParts
<1>5. \A d \in Dirs : \A e \in db'[d].emb : e.id \in raced' \/ Has(d, e.id)'
  BY <1>2, EmbedParts
<1>6. \A a \in answered' : a[1] \in forgotten' \/ Has(a[2], a[1])'
  BY <1>1, <1>2, EmbedParts
<1> QED
  BY <1>3, <1>4, <1>5, <1>6 DEF EmbedInv, EmbeddingsOwned, RememberedKept, Has

LEMMA EmbedStep == TypeInv /\ EmbedInv /\ [Next]_vars => EmbedInv'
<1> SUFFICES ASSUME TypeInv, EmbedInv, [Next]_vars PROVE EmbedInv'
  OBVIOUS
<1> USE DEF TypeInv
<1>1. CASE Start
  BY EmbedKept, <1>1 DEF Start, LoadCipher, history
<1>2. CASE StartFailed
  BY EmbedKept, <1>2 DEF StartFailed, LoadCipher, history
<1>3. CASE Stop
  BY <1>3, StopFields, EmbedKept DEF Stop, history
<1>4. CASE Restart
  BY <1>4, NoRequestFields, EmbedKept DEF Restart, history
<1>5. ASSUME NEW d \in Dirs, PatchDataDir(d) PROVE EmbedInv'
  BY EmbedKept, <1>5 DEF PatchDataDir, history
<1>6. ASSUME NEW r, Forget(r) PROVE EmbedInv'
  <2>1. /\ store \in Dirs /\ Delete(store, r) /\ UNCHANGED answered
        /\ forgotten' = forgotten \cup {r.id}
    BY <1>6, ForgetFields DEF Forget
  <2>2. /\ \A e \in Ops : op[e].at = "embed" /\ r.id \in op[e].hits => r.id \in raced'
        /\ raced \subseteq raced' /\ raced' \subseteq raced \cup {r.id}
    BY <1>6 DEF Forget
  <2>3. \A e \in Ops : /\ op'[e].at = op[e].at /\ op'[e].dir = op[e].dir
                       /\ op'[e].hits = op[e].hits
    BY <1>6, ForgetFields
  <2>4. /\ \A d \in Dirs : db[d].rows \ {r} \subseteq db'[d].rows
        /\ db'[store].emb = {e \in db[store].emb : e.id # r.id}
        /\ \A d \in Dirs \ {store} : db'[d] = db[d]
    BY <2>1, DeleteFields
  <2>5. /\ answered \subseteq Ids \X Dirs
        /\ \A e \in Ops : op[e].at = "embed" => op[e].dir \in Dirs
    BY DEF RequestInv, TypeOK
  <2>6. \A d \in Dirs : \A j : j # r.id /\ Has(d, j) => Has(d, j)'
    BY <2>4 DEF Has
  <2>7. \A d \in Dirs \ {store} : \A j : Has(d, j) => Has(d, j)'
    BY <2>4 DEF Has
  <2>8. ASSUME NEW e \in Ops, op'[e].at = "embed", NEW j \in op'[e].hits
        PROVE  j \in raced' \/ Has(op[e].dir, j)'
    BY <2>2, <2>3, <2>5, <2>6, <2>8, EmbedParts
  <2>9. \A d \in Dirs : \A e \in db'[d].emb : e.id \in raced' \/ Has(d, e.id)'
    BY <2>1, <2>2, <2>4, <2>6, <2>7, EmbedParts
  <2>10. \A a \in answered' : a[1] \in forgotten' \/ Has(a[2], a[1])'
    BY <2>1, <2>5, <2>6, EmbedParts
  <2>11. (raced \subseteq forgotten)'
    BY <2>1, <2>2, EmbedParts
  <2> QED
    BY <2>8, <2>9, <2>10, <2>11 DEF EmbedInv, EmbeddingsOwned,
         RememberedKept, Has
<1>7. ASSUME NEW o \in Ops, NEW s \in Silos, NEW t \in Texts, Recall(o, s, t)
    PROVE EmbedInv'
  <2>1. \A e \in Ops : op'[e].at = "embed" => op'[e] = op[e]
    BY <1>7, RecallFields
  <2> QED
    BY <1>7, <2>1, EmbedKept DEF Recall, history
<1>8. ASSUME NEW o \in Ops, NEW s \in Silos, NEW t \in Texts, NEW i \in Ids,
    Remember(o, s, t, i) PROVE EmbedInv'
  <2>1. /\ Insert(store, i, s, t) /\ store \in Dirs /\ i \notin drawn
        /\ UNCHANGED <<store, answered, forgotten, raced>>
        /\ op'[o].dir = store /\ op'[o].hits = {i}
        /\ \A e \in Ops \ {o} : op'[e] = op[e]
    BY <1>8, RememberFields DEF Remember
  <2>2. PICK new \in Row : new.id = i /\ db'[store].rows = db[store].rows \cup {new}
    BY <2>1, InsertFields
  <2>3. \A d \in Dirs : db[d].rows \subseteq db'[d].rows /\ db'[d].emb = db[d].emb
    BY <2>1, InsertFields
  <2>4. /\ answered \subseteq Ids \X Dirs
        /\ \A e \in Ops : op[e].at = "embed" => op[e].dir \in Dirs
    BY DEF RequestInv, TypeOK
  <2>5. Has(store, i)' /\ \A d \in Dirs : \A j : Has(d, j) => Has(d, j)'
    BY <2>1, <2>2, <2>3 DEF Has
  <2>6. ASSUME NEW e \in Ops, op'[e].at = "embed", NEW j \in op'[e].hits
        PROVE  j \in raced' \/ Has(op[e].dir, j)'
    <3>1. CASE e = o
      BY <2>1, <2>5, <2>6, <3>1
    <3>2. CASE e # o
      <4>1. op'[e] = op[e]
        BY <2>1, <3>2
      <4>2. j \in raced \/ Has(op[e].dir, j)
        BY <2>6, <4>1, EmbedParts
      <4> QED
        BY <2>1, <2>4, <2>5, <2>6, <4>1, <4>2
    <3> QED
      BY <3>1, <3>2
  <2>7. \A d \in Dirs : \A e \in db'[d].emb : e.id \in raced' \/ Has(d, e.id)'
    BY <2>1, <2>3, <2>5, EmbedParts
  <2>8. \A a \in answered' : a[1] \in forgotten' \/ Has(a[2], a[1])'
    BY <2>1, <2>4, <2>5, EmbedParts
  <2>9. (raced \subseteq forgotten)'
    BY <2>1, EmbedParts
  <2> QED
    BY <2>6, <2>7, <2>8, <2>9 DEF EmbedInv, EmbeddingsOwned, RememberedKept,
         Has
<1>9. ASSUME NEW o \in Ops, EmbeddingSkipped(o) PROVE EmbedInv'
  <2>1. /\ op' = [op EXCEPT ![o] = NoRequest] /\ op[o].at = "embed"
        /\ answered' = answered \cup {<<i, op[o].dir>> : i \in op[o].hits}
        /\ UNCHANGED <<forgotten, raced>>
    BY <1>9 DEF EmbeddingSkipped, Answers
  <2>2. /\ op[o].dir \in Dirs /\ answered \subseteq Ids \X Dirs
        /\ \A e \in Ops : op[e].at = "embed" => op[e].dir \in Dirs
    BY <2>1 DEF RequestInv, TypeOK
  <2>3. \A d \in Dirs : db'[d].rows = db[d].rows
    BY <1>9 DEF EmbeddingSkipped
  <2>4. \A d \in Dirs : \A i : Has(d, i)' <=> Has(d, i)
    BY <2>3 DEF Has
  <2>5. \A d \in Dirs : \A e \in db'[d].emb : e.id \in raced \/ Has(d, e.id)
    BY <1>9, EmbedParts DEF EmbeddingSkipped
  <2>6. \A a \in answered' : a[1] \in forgotten \/ Has(a[2], a[1])
    BY <2>1, EmbedParts
  <2>7. ASSUME NEW e \in Ops, op'[e].at = "embed", NEW i \in op'[e].hits
        PROVE  i \in raced \/ Has(op[e].dir, i)'
    <3>1. op'[e] = op[e]
      BY <2>1, <2>7, NoRequestFields DEF TypeOK
    <3> QED
      BY <2>2, <2>4, <2>7, <3>1, EmbedParts
  <2>8. \A a \in answered' : a[2] \in Dirs
    BY <2>1, <2>2
  <2>9. \A a \in answered' : a[1] \in forgotten' \/ Has(a[2], a[1])'
    BY <2>1, <2>4, <2>6, <2>8
  <2>10. \A d \in Dirs : \A e \in db'[d].emb : e.id \in raced' \/ Has(d, e.id)'
    BY <2>1, <2>4, <2>5
  <2>11. (raced \subseteq forgotten)'
    BY <2>1, EmbedParts
  <2> QED
    BY <2>1, <2>7, <2>9, <2>10, <2>11
      DEF EmbedInv, EmbeddingsOwned, RememberedKept, Has
<1>10. ASSUME NEW o \in Ops, NEW m \in Models, PutEmbedding(o, m) PROVE
    EmbedInv'
  <2>1. /\ op' = [op EXCEPT ![o] = NoRequest] /\ op[o].at = "embed"
        /\ answered' = answered \cup {<<i, op[o].dir>> : i \in op[o].hits}
        /\ UNCHANGED <<forgotten, raced>>
    BY <1>10 DEF PutEmbedding, Answers
  <2>2. /\ op[o].dir \in Dirs /\ answered \subseteq Ids \X Dirs
        /\ \A e \in Ops : op[e].at = "embed" => op[e].dir \in Dirs
    BY <2>1, SMTT(40) DEF RequestInv, TypeOK
  <2>3. \A d \in Dirs : db'[d].rows = db[d].rows
    BY <1>10, EmbeddingFields DEF PutEmbedding
  <2>4. \A d \in Dirs : \A i : Has(d, i)' <=> Has(d, i)
    BY <2>3 DEF Has
  <2>5. \A d \in Dirs : \A e \in db'[d].emb : e.id \in raced \/ Has(d, e.id)
    <3>1. SUFFICES ASSUME NEW d \in Dirs, NEW e \in db'[d].emb, e \notin db[d].emb
                   PROVE  e.id \in raced \/ Has(d, e.id)
      BY EmbedParts
    <3>2. /\ db'[op[o].dir].emb = db[op[o].dir].emb \cup
                {[id |-> i, model |-> m] : i \in op[o].hits}
          /\ \A c \in Dirs \ {op[o].dir} : db'[c] = db[c]
      BY <1>10, EmbeddingFields
    <3>3. d = op[o].dir /\ \E i \in op[o].hits : e = [id |-> i, model |-> m]
      BY <3>1, <3>2
    <3>4. e.id \in op[o].hits
      BY <3>3
    <3> QED
      BY <2>1, <3>3, <3>4, EmbedParts
  <2>6. \A a \in answered' : a[1] \in forgotten \/ Has(a[2], a[1])
    BY <2>1, EmbedParts
  <2>7. ASSUME NEW e \in Ops, op'[e].at = "embed", NEW i \in op'[e].hits
        PROVE  i \in raced \/ Has(op[e].dir, i)'
    <3>1. op'[e] = op[e]
      BY <2>1, <2>7, NoRequestFields DEF TypeOK
    <3> QED
      BY <2>2, <2>4, <2>7, <3>1, EmbedParts
  <2>8. \A a \in answered' : a[2] \in Dirs
    BY <2>1, <2>2
  <2>9. \A a \in answered' : a[1] \in forgotten' \/ Has(a[2], a[1])'
    BY <2>1, <2>4, <2>6, <2>8
  <2>10. \A d \in Dirs : \A e \in db'[d].emb : e.id \in raced' \/ Has(d, e.id)'
    BY <2>1, <2>4, <2>5
  <2>11. (raced \subseteq forgotten)'
    BY <2>1, EmbedParts
  <2> QED
    BY <2>1, <2>7, <2>9, <2>10, <2>11
      DEF EmbedInv, EmbeddingsOwned, RememberedKept, Has
<1>11. ASSUME NEW o \in Ops, NEW n \in Limits, VectorSearch(o, n) PROVE
    EmbedInv'
  <2>1. \A e \in Ops : op'[e].at = "embed" => op'[e] = op[e]
    BY <1>11, VectorFields
  <2> QED
    BY <1>11, <2>1, EmbedKept DEF VectorSearch, history
<1>12. ASSUME NEW o \in Ops, RecallReturns(o) PROVE EmbedInv'
  <2>1. \A e \in Ops : op'[e].at = "embed" => op'[e] = op[e]
    BY <1>12, NoRequestFields DEF RecallReturns, TypeOK
  <2> QED
    BY <1>12, <2>1, EmbedKept DEF RecallReturns, history
<1>13. ASSUME NEW o \in Ops, NEW i \in Ids, Fetch(o, i) PROVE EmbedInv'
  <2>1. \A e \in Ops : op'[e].at = "embed" => op'[e] = op[e]
    BY <1>13, FetchFields
  <2> QED
    BY <1>13, <2>1, EmbedKept DEF Fetch, history
<1>14. ASSUME NEW o \in Ops, NEW i \in Ids, FetchGone(o, i) PROVE EmbedInv'
  <2>1. \A e \in Ops : op'[e].at = "embed" => op'[e] = op[e]
    BY <1>14, FetchFields
  <2> QED
    BY <1>14, <2>1, EmbedKept DEF FetchGone, history
<1>15. ASSUME NEW o \in Ops, NEW i \in Ids, FetchFailed(o, i) PROVE EmbedInv'
  <2>1. \A e \in Ops : op'[e].at = "embed" => op'[e] = op[e]
    BY <1>15, NoRequestFields DEF FetchFailed, TypeOK
  <2> QED
    BY <1>15, <2>1, EmbedKept DEF FetchFailed, history
<1>16. CASE UNCHANGED vars
  BY EmbedKept, <1>16 DEF vars, history
<1> QED
  BY <1>1, <1>2, <1>3, <1>4, <1>5, <1>6, <1>7, <1>8, <1>9, <1>10, <1>11,
       <1>12, <1>13, <1>14, <1>15, <1>16 DEF Next, Serve

LEMMA EmbedCorrect == Spec => []EmbedInv
<1>1. Init => EmbedInv
  BY NoRequestFields DEF Init, EmbedInv, EmbeddingsOwned, RememberedKept
<1> QED
  BY <1>1, EmbedStep, TypeInvCorrect, PTL DEF Spec

(***************************************************************************)
(* Forget leaves no embedding behind, but for a memory whose embedding was *)
(* under way: Delete takes the row, its index entry and its vectors in one *)
(* transaction, and PutEmbedding is for a row that Remember inserted.      *)
(***************************************************************************)
THEOREM EmbeddingsCorrect == Spec => []EmbeddingsOwned
<1>1. EmbedInv => EmbeddingsOwned
  BY DEF EmbedInv
<1> QED
  BY <1>1, EmbedCorrect, PTL

(***************************************************************************)
(* A memory whose id Remember returned is stored until Forget deletes it:  *)
(* an embedding that fails, or a store that is stopped, takes no row back. *)
(***************************************************************************)
THEOREM RememberedCorrect == Spec => []RememberedKept
<1>1. EmbedInv => RememberedKept
  BY DEF EmbedInv
<1> QED
  BY <1>1, EmbedCorrect, PTL
=============================================================================
