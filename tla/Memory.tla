------------------------------- MODULE Memory -------------------------------
(***************************************************************************)
(* The memory capability: a silo's memories in SQLite, with a full-text    *)
(* mirror keyed by rowid and embeddings keyed by memory id, sealed with    *)
(* the key of the data directory (internal/memory).                        *)
(*                                                                         *)
(* The database has one connection, so a transaction or a query is a step. *)
(* A request keeps the store it found when it began: Stop closes that      *)
(* store under it. Between the queries of a Remember or a Recall the       *)
(* embedding is computed, and other requests go on.                        *)
(***************************************************************************)
EXTENDS Integers, FiniteSets, FiniteSetsExt

CONSTANTS Dirs,    \* data directories: each holds a memory.db and a memory.key
          Silos,
          Ids,     \* the uuids Remember can still draw
          Texts,   \* contents; a query is one of them, and matches its equals
          Models,  \* embedding models
          Ops,     \* requests that can be under way at once
          Limits,  \* numbers of hits a recall may ask for
          NoDir, Plain

ASSUME MemoryAssumption ==
    /\ NoDir \notin Dirs /\ Plain \notin Dirs
    /\ Limits \subseteq Nat \ {0}
    /\ IsFiniteSet(Ids) /\ Silos # {}

VARIABLES
    dataDir,    \* data_dir in the live configuration
    store,      \* c.store: the directory whose database is open, or NoDir
    cipher,     \* c.cipher: the directory whose key was loaded, or Plain
    db,         \* the databases on disk
    op,         \* the requests under way
    \* history
    drawn,      \* ids ever drawn
    answered,   \* memories whose Remember returned the id: <<id, dir>>
    forgotten,  \* ids deleted
    raced,      \* ids deleted while their embedding was being computed
    patched     \* data_dir has changed since the key was loaded

vars == <<dataDir, store, cipher, db, op, drawn, answered, forgotten, raced,
          patched>>

Rowids == 1..Cardinality(Ids)

\* A row of memories; key is the one its content is sealed with.
Row == [rowid: Rowids, id: Ids, silo: Silos, text: Texts, key: Dirs \cup {Plain}]

Database == [rows: SUBSET Row,
             fts: SUBSET [rowid: Rowids, text: Texts],
             emb: SUBSET [id: Ids, model: Models]]

Phases == {"none", "embed", "search", "fetch"}

\* What a request holds between its queries: open is whether its store still
\* is, hits are the ids to fetch, out those fetched. matching and whole say
\* what an exact answer holds: the matching memories that have been there since
\* the search, and whether no hit was cut off.
Request == [at: Phases, dir: Dirs \cup {NoDir}, open: BOOLEAN, silo: Silos,
            limit: Limits \cup {0}, hits: SUBSET Ids, out: SUBSET Ids,
            matching: SUBSET Ids, whole: BOOLEAN]

NoRequest == [at |-> "none", dir |-> NoDir, open |-> FALSE,
              silo |-> CHOOSE s \in Silos : TRUE, limit |-> 0, hits |-> {},
              out |-> {}, matching |-> {}, whole |-> FALSE]

TypeOK ==
    /\ dataDir \in Dirs /\ store \in Dirs \cup {NoDir}
    /\ cipher \in Dirs \cup {Plain}
    /\ db \in [Dirs -> Database]
    /\ op \in [Ops -> Request]
    /\ \A o \in Ops : op[o].at = "fetch" =>
           Cardinality(op[o].hits \cup op[o].out) <= op[o].limit
    /\ drawn \subseteq Ids /\ forgotten \subseteq Ids /\ raced \subseteq Ids
    /\ answered \subseteq Ids \X Dirs /\ patched \in BOOLEAN

Init ==
    /\ dataDir \in Dirs
    /\ store = NoDir /\ cipher = Plain
    /\ db = [d \in Dirs |-> [rows |-> {}, fts |-> {}, emb |-> {}]]
    /\ op = [o \in Ops |-> NoRequest]
    /\ drawn = {} /\ answered = {} /\ forgotten = {} /\ raced = {}
    /\ patched = FALSE

history == <<drawn, answered, forgotten, raced, patched>>

-----------------------------------------------------------------------------
(***************************************************************************)
(* Start and Stop, as Reconcile calls them.                                *)
(***************************************************************************)
\* A mutant: the store is opened first, and stays open when there is no key.
LoadCipherLate == cipher' \in {cipher, dataDir}

\* The key of data_dir, created when there is none; a key once loaded stays.
LoadCipher == cipher' = IF cipher = Plain THEN dataDir ELSE cipher

Start ==
    /\ store = NoDir
    /\ LoadCipher
    /\ store' = dataDir
    /\ UNCHANGED <<dataDir, db, op, history>>

\* The key is loaded and the database cannot be opened.
StartFailed ==
    /\ store = NoDir /\ cipher = Plain
    /\ LoadCipher
    /\ UNCHANGED <<dataDir, store, db, op, history>>

\* Requests under way keep a store that is closed.
Stop ==
    /\ store # NoDir
    /\ store' = NoDir
    /\ op' = [o \in Ops |-> [op[o] EXCEPT !.open = FALSE]]
    /\ UNCHANGED <<dataDir, cipher, db, history>>

\* data_dir changes in the live configuration; nothing is reopened.
PatchDataDir(d) ==
    /\ d # dataDir /\ dataDir' = d
    /\ patched' = (patched \/ cipher # Plain)
    /\ UNCHANGED <<store, cipher, db, op, drawn, answered, forgotten, raced>>

\* The process ends, in whatever state, and is started again.
Restart ==
    /\ store' = NoDir /\ cipher' = Plain
    /\ op' = [o \in Ops |-> NoRequest]
    /\ patched' = FALSE
    /\ UNCHANGED <<dataDir, db, drawn, answered, forgotten, raced>>

-----------------------------------------------------------------------------
(***************************************************************************)
(* Remember: the row and its index entry in one transaction, then the      *)
(* embedding, best effort.                                                 *)
(***************************************************************************)
\* SQLite takes one more than the largest rowid in use: the last is reused.
NextRowid(d) == 1 + Max({0} \cup {r.rowid : r \in db[d].rows})

Insert(d, id, s, t) ==
    LET n == NextRowid(d) IN
    db' = [db EXCEPT
             ![d].rows = @ \cup {[rowid |-> n, id |-> id, silo |-> s, text |-> t,
                                  key |-> cipher]},
             ![d].fts = @ \cup {[rowid |-> n, text |-> t]}]

Remember(o, s, t, id) ==
    /\ op[o].at = "none" /\ store # NoDir /\ id \notin drawn
    /\ drawn' = drawn \cup {id}
    /\ Insert(store, id, s, t)
    /\ op' = [op EXCEPT ![o] = [NoRequest EXCEPT !.at = "embed", !.dir = store,
                                !.open = TRUE, !.silo = s, !.hits = {id}]]
    /\ UNCHANGED <<dataDir, store, cipher, answered, forgotten, raced, patched>>

\* The id is returned.
Answers(o) ==
    /\ op' = [op EXCEPT ![o] = NoRequest]
    /\ answered' = answered \cup {<<id, op[o].dir>> : id \in op[o].hits}
    /\ UNCHANGED <<dataDir, store, cipher, drawn, forgotten, raced, patched>>

PutEmbedding(o, m) ==
    /\ op[o].at = "embed" /\ op[o].open
    /\ db' = [db EXCEPT ![op[o].dir].emb =
                @ \cup {[id |-> id, model |-> m] : id \in op[o].hits}]
    /\ Answers(o)

\* A mutant: the row is taken back when its embedding fails.
EmbeddingRollsBack(o) ==
    /\ op[o].at = "embed"
    /\ db' = [db EXCEPT ![op[o].dir].rows = {r \in @ : r.id \notin op[o].hits}]
    /\ Answers(o)

\* Compute is off, the embedding failed, the client went away, or the store is
\* closed: the memory stays without one.
EmbeddingSkipped(o) ==
    /\ op[o].at = "embed"
    /\ UNCHANGED db
    /\ Answers(o)

-----------------------------------------------------------------------------
(***************************************************************************)
(* Forget.                                                                 *)
(***************************************************************************)
\* A mutant: the embeddings are left to be cleaned up later.
DeleteKeepingVectors(d, r) ==
    db' = [db EXCEPT ![d].rows = @ \ {r},
                     ![d].fts = {e \in @ : e.rowid # r.rowid}]

\* The row, its index entry and its embeddings, in one transaction.
Delete(d, r) ==
    db' = [db EXCEPT ![d].rows = @ \ {r},
                     ![d].fts = {e \in @ : e.rowid # r.rowid},
                     ![d].emb = {e \in @ : e.id # r.id}]

Forget(r) ==
    /\ store # NoDir /\ r \in db[store].rows
    /\ Delete(store, r)
    /\ forgotten' = forgotten \cup {r.id}
    /\ raced' = IF \E o \in Ops : op[o].at = "embed" /\ r.id \in op[o].hits
                THEN raced \cup {r.id} ELSE raced
    /\ op' = [o \in Ops |-> [op[o] EXCEPT !.matching = @ \ {r.id}]]
    /\ UNCHANGED <<dataDir, store, cipher, drawn, answered, patched>>

-----------------------------------------------------------------------------
(***************************************************************************)
(* Recall: a keyword search, a vector search when the query can be         *)
(* embedded, and a fetch of each hit that is left.                         *)
(***************************************************************************)
\* The mirror joined with the rows.
KeywordSearch(d, s, t) ==
    {r.id : r \in {x \in db[d].rows :
                     x.silo = s /\ [rowid |-> x.rowid, text |-> t] \in db[d].fts}}

Recall(o, s, t) ==
    /\ op[o].at = "none" /\ store # NoDir
    /\ op' = [op EXCEPT ![o] =
                [NoRequest EXCEPT
                   !.at = "search", !.dir = store, !.open = TRUE, !.silo = s,
                   !.hits = KeywordSearch(store, s, t),
                   !.matching = {r.id : r \in {x \in db[store].rows :
                                                 x.silo = s /\ x.text = t}}]]
    /\ UNCHANGED <<dataDir, store, cipher, db, history>>

\* Embeddings whose memory is in the silo.
EmbeddingsBySilo(d, s, m) ==
    {r.id : r \in {x \in db[d].rows :
                     x.silo = s /\ [id |-> x.id, model |-> m] \in db[d].emb}}

\* fuseScores and the cut: every hit of either list has a score, the best n are
\* kept, and the scores may rank them in any order.  A hit whose score is not
\* positive beside one whose score is gets none: a keyword hit never is, since
\* bm25 gives every match a positive score, and a vector hit that is (not
\* similar at all) is one of those VectorSearch may not find.
Fuse(keyword, vector, n) ==
    LET all == keyword \cup vector IN
    IF Cardinality(all) <= n THEN {all} ELSE kSubset(n, all)

\* vectorSearch. Nothing, when the query cannot be embedded or the store is
\* closed; the similar ones under the current model otherwise. The limit the
\* request came with is first needed here: the searches fetch four times as many.
VectorSearch(o, n) ==
    /\ op[o].at = "search"
    /\ \E found \in {{}} \cup (IF op[o].open
                               THEN UNION {SUBSET EmbeddingsBySilo(op[o].dir, op[o].silo, m) :
                                             m \in Models}
                               ELSE {}) :
         \E kept \in Fuse(op[o].hits, found, n) :
            op' = [op EXCEPT ![o].at = "fetch", ![o].limit = n, ![o].hits = kept,
                     ![o].whole = (Cardinality(op[o].hits \cup found) <= n)]
    /\ UNCHANGED <<dataDir, store, cipher, db, history>>

Stored(o, id) == {r \in db[op[o].dir].rows : r.id = id /\ r.silo = op[o].silo}

\* Get, and Cipher.Open.
Fetch(o, id) ==
    /\ op[o].at = "fetch" /\ id \in op[o].hits /\ op[o].open
    /\ \E r \in Stored(o, id) : r.key = cipher
    /\ op' = [op EXCEPT ![o].hits = @ \ {id}, ![o].out = @ \cup {id}]
    /\ UNCHANGED <<dataDir, store, cipher, db, history>>

\* A mutant: a hit that is gone ends the recall.
FetchStops(o, id) ==
    /\ op[o].at = "fetch" /\ id \in op[o].hits /\ op[o].open
    /\ Stored(o, id) = {}
    /\ op' = [op EXCEPT ![o].hits = {}]
    /\ UNCHANGED <<dataDir, store, cipher, db, history>>

\* Deleted between the search and the fetch.
FetchGone(o, id) ==
    /\ op[o].at = "fetch" /\ id \in op[o].hits /\ op[o].open
    /\ Stored(o, id) = {}
    /\ op' = [op EXCEPT ![o].hits = @ \ {id}]
    /\ UNCHANGED <<dataDir, store, cipher, db, history>>

\* The store is closed, or the content does not open: the recall fails.
FetchFailed(o, id) ==
    /\ op[o].at = "fetch" /\ id \in op[o].hits
    /\ ~op[o].open \/ \E r \in Stored(o, id) : r.key # cipher
    /\ op' = [op EXCEPT ![o] = NoRequest]
    /\ UNCHANGED <<dataDir, store, cipher, db, history>>

\* Every hit is fetched: the results are returned.
Complete(o) == op[o].at = "fetch" /\ op[o].hits = {}

RecallReturns(o) ==
    /\ Complete(o)
    /\ op' = [op EXCEPT ![o] = NoRequest]
    /\ UNCHANGED <<dataDir, store, cipher, db, history>>

-----------------------------------------------------------------------------
Serve(o) ==
    \/ \E s \in Silos, t \in Texts :
          Recall(o, s, t) \/ \E id \in Ids : Remember(o, s, t, id)
    \/ EmbeddingSkipped(o) \/ \E m \in Models : PutEmbedding(o, m)
    \/ \E n \in Limits : VectorSearch(o, n)
    \/ RecallReturns(o)
    \/ \E id \in Ids : Fetch(o, id) \/ FetchGone(o, id) \/ FetchFailed(o, id)

Next ==
    \/ Start \/ StartFailed \/ Stop \/ Restart
    \/ \E d \in Dirs : PatchDataDir(d)
    \/ \E r \in UNION {db[d].rows : d \in Dirs} : Forget(r)
    \/ \E o \in Ops : Serve(o)

Spec == Init /\ [][Next]_vars

-----------------------------------------------------------------------------
(***************************************************************************)
(* Properties.                                                             *)
(***************************************************************************)
\* Content at rest is keyed by the memory.key of the directory it is in, so that
\* a node started on the directory can open it, whatever fails while the
\* capability starts. The one exception is a process whose data_dir is changed
\* after it loaded a key: it goes on with that key in the new directory. It never
\* stores anything under the passthrough cipher.
KeyedByDataDir ==
    [][\A d \in Dirs : \A r \in db'[d].rows \ db[d].rows :
           r.key = d \/ (patched /\ r.key # Plain)]_vars

\* A recall that is answered and had no more hits than its limit returns every
\* memory of the silo that matches the query and was there throughout, whatever
\* was remembered, forgotten (its rowid reused) or closed meanwhile.
RecallExact ==
    \A o \in Ops : Complete(o) /\ op[o].whole => op[o].matching \subseteq op[o].out

\* An embedding belongs to a memory that is stored, but for one that was
\* deleted while its embedding was still being computed.
EmbeddingsOwned ==
    \A d \in Dirs : \A e \in db[d].emb :
        e.id \in raced \/ \E r \in db[d].rows : r.id = e.id

\* A memory whose id was returned is there until it is forgotten, with or
\* without an embedding, across Stop, Start and restarts.
RememberedKept ==
    \A a \in answered : a[1] \in forgotten \/ \E r \in db[a[2]].rows : r.id = a[1]
=============================================================================
