----------------------------- MODULE Algorithms -----------------------------
(***************************************************************************)
(* The computations of the system that need no recursion, on any input: an *)
(* index that changes, the pools of two variants of a query, a query that  *)
(* is typed, products and their names, a shipment that is looked at twice, *)
(* a text that is cut.  An input is put together in steps, so that TLC's   *)
(* workers share the evaluation.                                           *)
(***************************************************************************)
EXTENDS Ranking, ProductSearch, Logistics, TextWindows

CONSTANTS
    Pools,          \* what one variant of a query recalls, with scores
    MaxVariants,    \* bound on the variants of a query
    TopKs,          \* results asked for
    Characters,     \* characters of a query
    MaxQuery,       \* bound on them
    ChunkIds,       \* ids of the chunks in an index
    Terms,          \* terms of their texts
    MaxChanges,     \* bound on the additions and removals
    ProductIds,     \* products of the shop
    Names,          \* names they may have
    Keywords,       \* names that are asked for
    Records,        \* shipments
    Overrides,      \* values of LOGISTICS_STAGE_MINUTES
    Clock,          \* times of a look
    Texts           \* texts without questions

ASSUME CatalogueAssumption ==
    /\ ProductIds \subseteq Nat \ {NoProduct} /\ IsFiniteSet(ProductIds)
    /\ Names \union Keywords \subseteq Seq(Letters)
ASSUME ShipmentsAssumption ==
    Records \subseteq Shipment /\ Overrides \subseteq Seq(Int) /\ Clock \subseteq Int
ASSUME PoolsAssumption ==
    /\ \A pool \in Pools : IsFiniteSet(DOMAIN pool) /\ pool \in [DOMAIN pool -> Int]
    /\ MaxVariants \in Nat /\ TopKs \subseteq Int
ASSUME TextsAssumption == Texts \subseteq Seq(Marks)
ASSUME ChangesAssumption == MaxChanges \in Nat

VARIABLE sample

Document == [id : ChunkIds, terms : SUBSET Terms]
NamesSample == [kind : {"names"}, name : [ProductIds -> Names]]
OrderSample == [kind : {"order"}, name : [ProductIds -> Names], keyword : Keywords,
                onSale : SUBSET ProductIds]
RecordSample == [kind : {"record"}, record : Records, raw : Overrides]
ShipmentSample == [kind : {"shipment"}, record : Records, raw : Overrides,
                   early : Clock, late : Clock]
TextSample == [kind : {"text"}, text : Texts, start : Nat, windows : Seq(Nat \X Nat)]

\* Of the samples the proofs are about; the others are as TLC puts them together.
TypeOK ==
    /\ sample.kind \in {"pool", "search"} => sample.lists \in Seq(Pools)
    /\ sample.kind = "search" => sample.top_k \in TopKs
    /\ sample.kind = "query" => sample.query \in Seq(Characters)
    /\ sample.kind = "index" => sample.steps \in 0..MaxChanges /\ sample.index.docs \in Seq(Document)
    /\ sample.kind = "names" => sample \in NamesSample
    /\ sample.kind = "order" => sample \in OrderSample
    /\ sample.kind = "record" => sample \in RecordSample
    /\ sample.kind = "shipment" => sample \in ShipmentSample
    /\ sample.kind = "text" => sample \in TextSample

-----------------------------------------------------------------------------
Init == sample = [kind |-> "none"]

BeginSearch ==
    /\ sample.kind = "none"
    /\ \E pool \in Pools : sample' = [kind |-> "pool", lists |-> <<pool>>]

RecallVariant ==
    /\ sample.kind = "pool"
    /\ Len(sample.lists) < MaxVariants
    /\ \E pool \in Pools : sample' = [kind |-> "pool", lists |-> Append(sample.lists, pool)]

\* A query of one variant is not fused.
Fuse ==
    /\ sample.kind = "pool"
    /\ Len(sample.lists) >= 2
    /\ \E top_k \in TopKs : sample' = [kind |-> "search", lists |-> sample.lists, top_k |-> top_k]

BeginQuery == sample.kind = "none" /\ sample' = [kind |-> "query", query |-> <<>>]

Type ==
    /\ sample.kind = "query"
    /\ Len(sample.query) < MaxQuery
    /\ \E c \in Characters : sample' = [kind |-> "query", query |-> Append(sample.query, c)]

BeginIndex == sample.kind = "none" /\ sample' = [kind |-> "index", index |-> EmptyIndex, steps |-> 0]

Changes(index) ==
    {Add(index, id, terms) : id \in ChunkIds, terms \in SUBSET Terms}
        \union {RemoveId(index, id) : id \in ChunkIds}

ChangeIndex ==
    /\ sample.kind = "index"
    /\ sample.steps < MaxChanges
    /\ \E index \in Changes(sample.index) :
          sample' = [kind |-> "index", index |-> index, steps |-> sample.steps + 1]

BeginNames ==
    /\ sample.kind = "none"
    /\ \E name \in [ProductIds -> Names] : sample' = [kind |-> "names", name |-> name]

Order ==
    /\ sample.kind = "names"
    /\ \E keyword \in Keywords, onSale \in SUBSET ProductIds :
          sample' = [kind |-> "order", name |-> sample.name, keyword |-> keyword, onSale |-> onSale]

BeginShipment ==
    /\ sample.kind = "none"
    /\ \E record \in Records, raw \in Overrides :
          sample' = [kind |-> "record", record |-> record, raw |-> raw]

LookTwice ==
    /\ sample.kind = "record"
    /\ \E early, late \in Clock :
          sample' = [kind |-> "shipment", record |-> sample.record, raw |-> sample.raw,
                     early |-> early, late |-> late]

BeginText ==
    /\ sample.kind = "none"
    /\ \E text \in Texts : sample' = [kind |-> "text", text |-> text, start |-> 0, windows |-> <<>>]

\* A round of the loop of _fallback_split; the window that reaches the end is
\* the last one.
CutWindow ==
    /\ sample.kind = "text"
    /\ sample.start < Len(sample.text)
    /\ LET best == WindowEnd(sample.text, sample.start)
           next == IF sample.start + chunk_size >= Len(sample.text) THEN Len(sample.text)
                   ELSE NextStart(sample.start, best)
       IN  sample' = [kind |-> "text", text |-> sample.text, start |-> next,
                      windows |-> Append(sample.windows, <<sample.start, best>>)]

Next ==
    \/ BeginSearch \/ RecallVariant \/ Fuse \/ BeginQuery \/ Type
    \/ BeginIndex \/ ChangeIndex
    \/ BeginNames \/ Order
    \/ BeginShipment \/ LookTwice
    \/ BeginText \/ CutWindow

Spec == Init /\ [][Next]_sample

-----------------------------------------------------------------------------
(* Properties *)

\* generate_query_variants loses no query (QueryComesFirst).
QueriesKept == sample.kind = "query" => QueryComesFirst(sample.query)

\* search_multi asks what it is asked (QueriesKept), and the results of
\* fuse_results put consensus first (ConsensusWins).
SearchRanks ==
    /\ QueriesKept
    /\ sample.kind = "search" => ConsensusWins(sample.lists, sample.top_k)

\* The keyword scores of BM25Index are computed of what is in it, after any
\* add and remove (FrequenciesKept).
IndexConsistent == sample.kind = "index" => FrequenciesKept(sample.index)

\* _fallback_split advances with every window, leaves no gap, repeats no more than
\* chunk_overlap, and no character that can be seen is in no chunk (Covered,
\* NothingLost).
WindowsCover ==
    sample.kind = "text" =>
        /\ Covered(sample.text, sample.start, sample.windows)
        /\ NothingLost(sample.text, sample.start, sample.windows)

\* place_order orders the product the name is of (OrderedAsNamed).
NamesOrderRight ==
    sample.kind = "order" => OrderedAsNamed(sample.keyword, sample.onSale, sample.name)

\* derive_logistics never takes back what a customer has seen
\* (ShipmentOnlyAdvances).
ShipmentsAdvance ==
    sample.kind = "shipment" =>
        ShipmentOnlyAdvances(sample.record, sample.raw, sample.early, sample.late)

\* What of it is inductive.
IInv == TypeOK /\ IndexConsistent /\ WindowsCover

=============================================================================
