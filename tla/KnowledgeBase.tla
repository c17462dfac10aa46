--------------------------- MODULE KnowledgeBase ---------------------------
(***************************************************************************)
(* The knowledge base: the chunks Chroma keeps of the documents in the     *)
(* directory, the BM25 index each process holds in memory and the answers  *)
(* Redis keeps.  Consoles (query.py) index the directory when they start;  *)
(* the server only searches, its BM25 index is what it read when it        *)
(* started.                                                                *)
(* Processes share Chroma and Redis and nothing orders them, so a search   *)
(* may run between any two steps of an indexing, and two consoles between  *)
(* each other's.  That each call of Chroma is one step all processes see   *)
(* is an assumption: store.py opens a PersistentClient, which does not     *)
(* promise it to processes that share a path.                              *)
(***************************************************************************)
EXTENDS Naturals, FiniteSets, FiniteSetsExt

CONSTANTS
    Docs,           \* documents, in the order of their file names
    Everything,     \* a query that names no product
    Consoles,       \* processes that index the directory
    Server,         \* the process that answers customers
    Searchers,      \* the server's threads
    Queries,        \* queries asked: documents, or Everything
    Piles,          \* queries that derive several variants (keyword piles)
    MaxRuns,        \* bound on the indexings of a document
    Parts,          \* chunks the text of a document is split into
    NoAnswer        \* Redis holds nothing for a query

ASSUME DocsAssumption == Docs \subseteq Nat /\ Everything \notin Docs
ASSUME QueriesAssumption == Queries \subseteq Docs \union {Everything} /\ Piles \subseteq Queries
ASSUME ServerAssumption == Server \notin Consoles
ASSUME BoundsAssumption == Parts \in Nat \ {0} /\ MaxRuns \in Nat

VARIABLES
    vectors,    \* chunks in Chroma
    bm25,       \* chunks in each process's BM25 index
    job,        \* what each console is indexing
    runs,       \* indexings so far: each reads a text and draws fresh chunk ids
    redis,      \* the answer kept for each query
    search,     \* the search each thread of the server is in
    excused,    \* history: queries whose kept answer has an excuse for its age
    contested   \* history: documents two consoles indexed at the same time

store == <<vectors, runs>>
vars == <<vectors, bm25, job, runs, redis, search, excused, contested>>

Processes == Consoles \union {Server}
Chunk == [doc : Docs, run : 1..MaxRuns, part : 1..Parts, by : Consoles]

\* The indexing whose text answers for each document, 0: none.
Answer == [Docs -> 0..MaxRuns]

\* The documents a query can hit: a product code filters on one document (the
\* second recall, of chunks without a code, for a query about a warranty is left out).
Scope(q) == IF q = Everything THEN Docs ELSE {q}

Job == [step : {"off", "find", "delete", "add", "drop", "done"}, todo : SUBSET Docs,
        found : SUBSET Chunk, alone : BOOLEAN]
Off == [step |-> "off", todo |-> {}, found |-> {}, alone |-> TRUE]
Current(k) == Min(job[k].todo)
Holding(k) == job[k].step \in {"delete", "add", "drop"}

Search == [step : {"idle", "recall"}, query : Queries \union {Everything}, left : 0..2,
           pool : SUBSET Chunk, late : BOOLEAN]
IdleSearch == [step |-> "idle", query |-> Everything, left |-> 0, pool |-> {}, late |-> FALSE]

TypeOK ==
    /\ vectors \subseteq Chunk
    /\ bm25 \in [Processes -> SUBSET Chunk]
    /\ job \in [Consoles -> Job]
    /\ runs \in 0..MaxRuns
    /\ redis \in [Queries -> Answer \union {NoAnswer}]
    /\ search \in [Searchers -> Search]
    /\ excused \subseteq Queries
    /\ contested \subseteq Docs

-----------------------------------------------------------------------------
(* Searching *)

Of(chunks, d) == {c \in chunks : c.doc = d}

\* The answers a pool of recalled chunks can give: one chunk of each source
\* that was hit, whichever scores best.
Answers(pool, q) ==
    {a \in Answer : \A d \in Docs :
        IF d \in Scope(q) /\ Of(pool, d) # {}
        THEN \E c \in Of(pool, d) : a[d] = c.run
        ELSE a[d] = 0}

\* Answers of the chunks that are in Chroma now.
Fresh(q) == Answers(vectors, q)

\* Mutant of Variants: the compact variant comes on top of the limit.
VariantsUnlimited(q) == IF q \in Piles THEN 3 ELSE 1

\* Variants derived of a query, each recalled by itself.
Variants(q) == IF q \in Piles THEN 2 ELSE 1

\* The searches, those that have recalled chunks before a change marked late.
Overtaken ==
    [t \in Searchers |->
        IF search[t].step = "recall" /\ search[t].left < Variants(search[t].query)
        THEN [search[t] EXCEPT !.late = TRUE] ELSE search[t]]

\* search, search_multi: nothing is kept for the query, or Redis is away (a
\* kept answer is returned and changes nothing).
BeginSearch(t, q) ==
    /\ search[t].step = "idle"
    /\ search' = [search EXCEPT ![t] = [IdleSearch EXCEPT !.step = "recall", !.query = q,
                                            !.left = Variants(q)]]
    /\ UNCHANGED <<store, bm25, job, redis, excused, contested>>

\* The chunks of the query's documents that Chroma finds.
RecalledBy(t) == {c \in vectors : c.doc \in Scope(search[t].query)}

\* _candidates for one variant of the query.
Recall(t) ==
    /\ search[t].step = "recall"
    /\ search[t].left > 0
    /\ search' = [search EXCEPT ![t].left = @ - 1, ![t].pool = @ \union RecalledBy(t)]
    /\ UNCHANGED <<store, bm25, job, redis, excused, contested>>

\* The results are fused, one for each source, and kept unless Redis is away.
Fill(t) ==
    LET q == search[t].query IN
    /\ search[t].step = "recall"
    /\ search[t].left = 0
    /\ \/ /\ \E a \in Answers(search[t].pool, q) : redis' = [redis EXCEPT ![q] = a]
          /\ excused' = IF search[t].late THEN excused \union {q} ELSE excused \ {q}
       \/ UNCHANGED <<redis, excused>>
    /\ search' = [search EXCEPT ![t] = IdleSearch]
    /\ UNCHANGED <<store, bm25, job, contested>>

\* Mutant of Expire: cache.set without a time to live.
ExpireNever(q) == FALSE /\ UNCHANGED vars

\* The time to live of a kept answer runs out.
Expire(q) ==
    /\ redis[q] # NoAnswer
    /\ redis' = [redis EXCEPT ![q] = NoAnswer]
    /\ excused' = excused \ {q}
    /\ UNCHANGED <<store, bm25, job, search, contested>>

\* get_all, from which a process builds its BM25 index.
StoredChunks == vectors

\* The server restarts: its BM25 index is built of what Chroma holds.
RestartServer ==
    /\ bm25' = [bm25 EXCEPT ![Server] = StoredChunks]
    /\ search' = [t \in Searchers |-> IdleSearch]
    /\ UNCHANGED <<store, job, redis, excused, contested>>

-----------------------------------------------------------------------------
(* Indexing *)

\* What load_dir finds: files come and go between two starts, and one that is
\* blank or cannot be read is passed over.
Directories == SUBSET Docs

\* A console starts: its BM25 index is built, the directory is read.  The
\* chunks of a document that is no longer there stay.
StartConsole(k) ==
    /\ job[k].step = "off"
    /\ bm25' = [bm25 EXCEPT ![k] = StoredChunks]
    /\ \E readable \in Directories :
          job' = [job EXCEPT ![k].step = IF readable = {} THEN "done" ELSE "find", ![k].todo = readable]
    /\ UNCHANGED <<store, redis, search, excused, contested>>

\* Consoles other than k that are at document d.
Rivals(k, d) == {j \in Consoles \ {k} : Holding(j) /\ Current(j) = d}

\* delete_by_doc_id asks for the ids of the document's chunks ...
FindChunks(k) ==
    /\ job[k].step = "find"
    /\ LET d == Current(k) IN
       /\ job' = [j \in Consoles |->
                    IF j = k THEN [job[k] EXCEPT !.step = "delete", !.found = Of(vectors, d),
                                                 !.alone = (Rivals(k, d) = {})]
                    ELSE IF j \in Rivals(k, d) THEN [job[j] EXCEPT !.alone = FALSE] ELSE job[j]]
       /\ contested' = IF Rivals(k, d) = {} THEN contested ELSE contested \union {d}
    /\ UNCHANGED <<store, bm25, redis, search, excused>>

\* Mutant of Remaining: the old chunks of the document are left in place.
RemainingAll(k) == vectors

Remaining(k) == vectors \ job[k].found

\* ... and deletes them.
DeleteChunks(k) ==
    /\ job[k].step = "delete"
    /\ vectors' = Remaining(k)
    /\ search' = IF job[k].found \intersect vectors = {} THEN search ELSE Overtaken
    /\ job' = [job EXCEPT ![k].step = "add", ![k].found = {}]
    /\ contested' = IF job[k].alone THEN contested \ {Current(k)} ELSE contested
    /\ UNCHANGED <<runs, bm25, redis, excused>>

Indexed(k, new) == [bm25 EXCEPT ![k] = @ \union new]

\* The document is split, embedded and added under fresh ids in
\* one call, then each chunk to the process's own BM25 index.
AddChunks(k) ==
    LET d == Current(k)
        new == {[doc |-> d, run |-> runs + 1, part |-> i, by |-> k] :
                  i \in 1..Parts}
    IN  /\ job[k].step = "add"
        /\ runs < MaxRuns
        /\ runs' = runs + 1
        /\ vectors' = vectors \union new
        /\ bm25' = Indexed(k, new)
        /\ search' = Overtaken
        /\ job' = [job EXCEPT ![k].step = "drop"]
        /\ UNCHANGED <<redis, excused, contested>>

\* Mutant of DropAnswers: the invalidation is forgotten.
DropNothing(k) == UNCHANGED <<redis, excused>>

\* cache.invalidate(NS_FAQ): every kept answer goes, unless Redis is away.
DropAnswers(k) ==
    \/ /\ redis' = [q \in Queries |-> NoAnswer]
       /\ excused' = {}
    \/ /\ excused' = {q \in Queries : redis[q] # NoAnswer}
       /\ UNCHANGED redis

\* The answers are dropped and the next document is taken.
EndDocument(k) ==
    /\ job[k].step = "drop"
    /\ DropAnswers(k)
    /\ LET rest == job[k].todo \ {Current(k)} IN
       job' = [job EXCEPT ![k].todo = rest, ![k].step = IF rest = {} THEN "done" ELSE "find"]
    /\ UNCHANGED <<store, bm25, search, contested>>

\* A console exits or is killed between any two steps; its index is gone with it.
StopConsole(k) ==
    /\ job[k].step # "off"
    /\ job' = [job EXCEPT ![k] = Off]
    /\ bm25' = [bm25 EXCEPT ![k] = {}]
    /\ excused' = IF job[k].step \in {"add", "drop"}
                  THEN excused \union {q \in Queries : redis[q] # NoAnswer} ELSE excused
    /\ UNCHANGED <<store, redis, search, contested>>

-----------------------------------------------------------------------------
Init ==
    /\ vectors = {}
    /\ bm25 = [p \in Processes |-> {}]
    /\ job = [k \in Consoles |-> Off]
    /\ runs = 0
    /\ redis = [q \in Queries |-> NoAnswer]
    /\ search = [t \in Searchers |-> IdleSearch]
    /\ excused = {}
    /\ contested = {}

Index(k) == FindChunks(k) \/ DeleteChunks(k) \/ AddChunks(k) \/ EndDocument(k)

Next ==
    \/ \E t \in Searchers, q \in Queries : BeginSearch(t, q)
    \/ \E t \in Searchers : Recall(t) \/ Fill(t)
    \/ \E q \in Queries : Expire(q)
    \/ \E k \in Consoles : StartConsole(k) \/ Index(k) \/ StopConsole(k)
    \/ RestartServer

\* A started search and a started indexing go on, a kept answer expires.
Fairness ==
    /\ \A t \in Searchers : WF_vars(Recall(t) \/ Fill(t))
    /\ \A k \in Consoles : WF_vars(Index(k))
    /\ \A q \in Queries : WF_vars(Expire(q))

Spec == Init /\ [][Next]_vars /\ Fairness

-----------------------------------------------------------------------------
(* Properties *)

\* Chroma holds of a document nothing or all chunks of one text, indexed in
\* one go, whatever was killed in between, unless two consoles were at the
\* document at the same time: then both sets stay until it is indexed again.
WholeTexts ==
    \A d \in Docs \ contested : Of(vectors, d) # {} =>
        /\ \A b, c \in Of(vectors, d) : b.run = c.run
        /\ {c.part : c \in Of(vectors, d)} = 1..Parts

\* A kept answer that Chroma's chunks would no longer give is of a document
\* that is being indexed, or was stored by a search that recalled its chunks
\* before the change, or missed its invalidation because Redis was away or
\* the console was killed.
StaleOnlyIfExcused ==
    \A q \in Queries : redis[q] \notin {NoAnswer} \union Fresh(q) =>
        \/ q \in excused
        \/ \E k \in Consoles : job[k].step \in {"add", "drop"}

\* What makes them inductive.

\* A console at a document is alone with it, or the document is contested; what
\* a console alone deletes is all there is of the document, and then nothing is
\* there until it adds.
DocumentHeld(k) ==
    /\ job[k].step \in {"find", "delete", "add", "drop"} => job[k].todo # {}
    /\ Holding(k) =>
          IF job[k].alone THEN Rivals(k, Current(k)) = {} ELSE Current(k) \in contested
    /\ job[k].step = "delete" => job[k].found \subseteq Of(Chunk, Current(k))
    /\ job[k].step = "delete" /\ job[k].alone => job[k].found = Of(vectors, Current(k))
    /\ job[k].step = "add" /\ job[k].alone => Of(vectors, Current(k)) = {}
DocumentsHeld == \A k \in Consoles : DocumentHeld(k)

\* A search that is not late has recalled nothing yet, or what is in Chroma now.
SearchesCurrent == \A t \in Searchers : search[t].step = "recall" =>
    /\ search[t].query \in Queries
    /\ search[t].left <= Variants(search[t].query)
    /\ ~search[t].late =>
          search[t].pool = IF search[t].left = Variants(search[t].query) THEN {} ELSE RecalledBy(t)

IInv == TypeOK /\ DocumentsHeld /\ WholeTexts /\ SearchesCurrent /\ StaleOnlyIfExcused

\* Once the directory is no longer indexed, every kept answer is one that
\* Chroma's chunks give: what was stored late or missed its invalidation expires.
EventuallyCurrent == <>[](\A q \in Queries : redis[q] \in {NoAnswer} \union Fresh(q))

\* What the comment "Sync BM25" (retriever.py:440) says of the one update the
\* keyword index gets: when a console has indexed the directory, its index holds
\* the chunks that are in Chroma.
Bm25InSync == \A k \in Consoles : job[k].step = "done" => bm25[k] = vectors

=============================================================================
