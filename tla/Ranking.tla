------------------------------ MODULE Ranking ------------------------------
(***************************************************************************)
(* How a search orders what it recalls: the bookkeeping of the BM25 index, *)
(* the hybrid score of a chunk for one variant of the query, and the       *)
(* fusion of the variants into one result for each source.  Scores are     *)
(* integers in units that make the weights of the code integers.           *)
(***************************************************************************)
EXTENDS Ascending, Sequences, SequencesExt, FiniteSetsExt

CONSTANT Source     \* the product each chunk is of

\* The sum and the product of f[1], ..., f[n].
Total(f, n) == LET sum[i \in 0..n] == IF i = 0 THEN 0 ELSE sum[i - 1] + f[i] IN sum[n]
Product(f, n) == LET prod[i \in 0..n] == IF i = 0 THEN 1 ELSE prod[i - 1] * f[i] IN prod[n]

-----------------------------------------------------------------------------
(* BM25Index: documents in the order they were added, each with the set of *)
(* its terms (df and N are all that depends on other documents).           *)

EmptyIndex == [docs |-> <<>>, df |-> <<>>, N |-> 0]
Df(index, t) == IF t \in DOMAIN index.df THEN index.df[t] ELSE 0

Add(index, id, terms) ==
    [docs |-> Append(index.docs, [id |-> id, terms |-> terms]),
     df |-> [t \in DOMAIN index.df \union terms |-> Df(index, t) + (IF t \in terms THEN 1 ELSE 0)],
     N |-> index.N + 1]

\* Mutant of RemoveId: the document frequencies stay.
RemoveIdOnly(index, id) ==
    LET at == {i \in DOMAIN index.docs : index.docs[i].id = id}
    IN  IF at = {} THEN index
        ELSE [index EXCEPT !.docs = RemoveAt(@, Min(at)), !.N = @ - 1]

\* remove: the first document of that id; terms no document has go.
RemoveId(index, id) ==
    LET at == {i \in DOMAIN index.docs : index.docs[i].id = id}
        terms == index.docs[Min(at)].terms
    IN  IF at = {} THEN index
        ELSE [docs |-> RemoveAt(index.docs, Min(at)),
              df |-> [t \in {t \in DOMAIN index.df : t \notin terms \/ index.df[t] > 1} |->
                        index.df[t] - (IF t \in terms THEN 1 ELSE 0)],
              N |-> index.N - 1]

\* search: the documents that share a term with the query are hit.
Hits(index, query) ==
    {i \in DOMAIN index.docs : \E t \in query \intersect DOMAIN index.df : t \in index.docs[i].terms}

-----------------------------------------------------------------------------
(* _candidates: one variant.  A pool has the vector score of each chunk    *)
(* recalled, in hundredths; bm25 the keyword score of the chunks it ranks. *)

\* _hybrid_rerank: 0.6 and 0.4 of it relative to the best keyword score, in
\* units of 1 / (10 * best).
Hybrid(pool, bm25) ==
    LET best == Max({bm25[c] : c \in DOMAIN bm25})
    IN  [c \in DOMAIN pool |->
            IF DOMAIN bm25 = {} THEN 6 * pool[c]
            ELSE 6 * pool[c] * best + (IF c \in DOMAIN bm25 THEN 4 * bm25[c] ELSE 0)]

\* A tenth more for each keyword, keywords[i] being the chunks whose text has
\* the i-th; in tenths for each keyword.
KeywordBonus(scores, keywords) ==
    [c \in DOMAIN scores |->
        scores[c] * Product([i \in DOMAIN keywords |-> IF c \in keywords[i] THEN 11 ELSE 10],
                            Len(keywords))]

-----------------------------------------------------------------------------
(* fuse_results *)

\* The best score of a list that recalled something; max(...) or 1.0.
Best(scores) == LET best == Max({scores[c] : c \in DOMAIN scores}) IN IF best = 0 THEN 1 ELSE best

\* What a list is divided by; lists that recalled nothing do not count.
Scale(list) == IF DOMAIN list = {} THEN 1 ELSE Best(list)

\* Mutant of Relative: the variants' scores are added as they are.
RelativeNot(lists, k, c) == IF c \in DOMAIN lists[k] THEN lists[k][c] ELSE 0

Magnitude(n) == IF n < 0 THEN -n ELSE n

\* The score of a chunk in one list divided by the best of that list, in units of
\* the product of the magnitudes of all scales.
Relative(lists, k, c) ==
    LET others == [j \in DOMAIN lists |-> IF j = k THEN 1 ELSE Magnitude(Scale(lists[j]))]
        sign == IF Scale(lists[k]) < 0 THEN -1 ELSE 1
    IN  IF c \in DOMAIN lists[k] THEN sign * lists[k][c] * Product(others, Len(lists)) ELSE 0

Fused(lists) ==
    [c \in UNION {DOMAIN lists[k] : k \in DOMAIN lists} |->
        Total([k \in DOMAIN lists |-> Relative(lists, k, c)], Len(lists))]

\* The orders a sort by score can give; equal ones stay as they were recalled,
\* which may be any order.
Sorted(scores) ==
    {s \in SetToSeqs(DOMAIN scores) : \A i, j \in DOMAIN s : i < j => scores[s[i]] >= scores[s[j]]}

\* _dedup_by_source: the first chunk of each source, up to top_k (one at least).
Distinct(ranked, top_k) ==
    LET first == {i \in DOMAIN ranked : \A j \in 1..(i - 1) : Source[ranked[j]] # Source[ranked[i]]}
    IN  [k \in 1..Min({Cardinality(first), Max({top_k, 1})}) |-> ranked[Ascending(first)[k]]]

\* What search_multi may return for the pools of its variants.
Results(lists, top_k) == {Distinct(s, top_k) : s \in Sorted(Fused(lists))}

-----------------------------------------------------------------------------
(* generate_query_variants.  A query is a sequence of characters: content, *)
(* "?" for a word of mere asking, "," for punctuation, " " for blanks.     *)

\* The runs of characters between those at which q is cut.
Pieces(q, cuts) ==
    LET cut(i) == i \notin DOMAIN q \/ q[i] \in cuts
        starts == Ascending({i \in DOMAIN q : cut(i - 1) /\ ~cut(i)})
        stop(i) == Min({j \in i..Len(q) : cut(j + 1)})
    IN  [k \in DOMAIN starts |-> SubSeq(q, starts[k], stop(starts[k]))]

Content(q) == {i \in DOMAIN q : q[i] # " "}

\* Blanks collapse to one, and go at both ends.
Tidy(q) ==
    LET between == {i \in DOMAIN q : i - 1 \in Content(q) /\ \E j \in Content(q) : j > i}
    IN  Picked(q, Content(q) \union between)

\* A variant is worth a recall if it has two characters and some content.
Worth(v) == Len(v) >= 2 /\ ToSet(v) \ {"?", ",", " "} # {}

\* What is asked for: the query, its last two words and its last one, its clauses,
\* and the words without blanks.
Asked(q) ==
    LET words == Pieces(q, {" "})
        n == Len(words)
        tail == IF n >= 3 THEN <<words[n - 1] \o <<" ">> \o words[n], words[n]>> ELSE <<>>
        clauses == IF "," \in ToSet(q) THEN Pieces(q, {","}) ELSE <<>>
        compact == IF n >= 3 THEN <<Picked(q, Content(q))>> ELSE <<>>
    IN  <<q>> \o tail \o clauses \o compact

\* Mutant of AddVariant: what is there already is added again.
AddVariantAgain(out, v) == IF Worth(v) THEN Append(out, v) ELSE out

\* _add
AddVariant(out, v) == IF Worth(v) /\ ~Contains(out, v) THEN Append(out, v) ELSE out

QueryVariants(query) ==
    LET asked == Asked(Tidy(query))
        out[i \in 0..Len(asked)] == IF i = 0 THEN <<>> ELSE AddVariant(out[i - 1], Tidy(asked[i]))
        all == out[Len(asked)]
    IN  SubSeq(all, 1, Min({5, Len(all)}))

-----------------------------------------------------------------------------
(* Properties *)

\* However documents were added and removed, the frequencies the keyword scores
\* are computed from are those of the documents that are there, and a search
\* by a term hits exactly the documents that have it.
FrequenciesKept(index) ==
    /\ index.N = Len(index.docs)
    /\ DOMAIN index.df = UNION {index.docs[i].terms : i \in DOMAIN index.docs}
    /\ \A t \in DOMAIN index.df : index.df[t] = Cardinality(Hits(index, {t}))
    /\ \A i \in DOMAIN index.docs : \A t \in index.docs[i].terms : i \in Hits(index, {t})

Share(lists, c, k) == IF c \in DOMAIN lists[k] THEN lists[k][c] ELSE 0
Recalling(lists, c) == {k \in DOMAIN lists : c \in DOMAIN lists[k]}

\* A chunk is at least as good as another one for every variant, better for some.
Dominates(lists, c, d) ==
    /\ \A k \in DOMAIN lists : Share(lists, c, k) >= Share(lists, d, k)
    /\ \E k \in DOMAIN lists : Share(lists, c, k) > Share(lists, d, k)

\* It is the best of one variant, another one speaks for it and none against it;
\* the other chunk is recalled by one variant only.
Agreed(lists, c, d) ==
    /\ \E j, k \in Recalling(lists, c) :
          j # k /\ Share(lists, c, k) = Best(lists[k]) /\ Share(lists, c, j) > 0
    /\ \A k \in DOMAIN lists : Share(lists, c, k) >= 0
    /\ Cardinality(Recalling(lists, d)) = 1

\* Each variant that recalls something recalls something near its query.  Where the
\* best score is negative, dividing by it turns the order of the list around.
Comparable(lists) ==
    \A k \in DOMAIN lists :
        DOMAIN lists[k] # {} => \E c \in DOMAIN lists[k] : lists[k][c] > 0

\* Consensus goes first: a chunk that dominates another one, or is agreed on
\* while the other is not, is not ranked behind it nor cut off, unless a chunk of
\* its source is there before the other; and sources are distinct.
ConsensusWins(lists, top_k) ==
    \A r \in Results(lists, top_k) :
        /\ \A i, j \in DOMAIN r : i # j => Source[r[i]] # Source[r[j]]
        /\ Comparable(lists) => \A i \in DOMAIN r : \A c \in DOMAIN Fused(lists) :
              Dominates(lists, c, r[i]) \/ Agreed(lists, c, r[i]) =>
                  \E j \in 1..(i - 1) : Source[r[j]] = Source[c]

\* A query that is worth asking is asked first and as it is, no variant twice,
\* and none that is too short or mere asking.
QueryComesFirst(query) ==
    LET v == QueryVariants(query) IN
    /\ \A i \in DOMAIN v : Worth(v[i]) /\ \A j \in DOMAIN v : v[i] = v[j] => i = j
    /\ IF Worth(Tidy(query)) THEN v # <<>> /\ v[1] = Tidy(query) ELSE v = <<>>

=============================================================================
