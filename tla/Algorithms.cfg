\* Texts, queries, result lists, indexes, product names and shipments of bounded size.
SPECIFICATION MCSpec
CONSTANTS
    Source <- MCSource
    Letters = {"a", "A", "b", "c", "d", "e", "f", " ", "/"}
    MatchLimit = 2
    RowLimit = 3
    NoTime = notime
    Pools <- MCPools
    MaxVariants = 2
    TopKs = {0, 1, 2}
    Characters = {"x", "y", "?", ",", " "}
    MaxQuery = 6
    ChunkIds = {"c1", "c2"}
    Terms = {"s", "t"}
    MaxChanges = 4
    ProductIds = {1, 2, 3, 4}
    Names <- MCNames
    Keywords <- MCKeywords
    Records <- MCRecords
    Overrides <- MCOverrides
    Clock <- MCClock
    Texts <- MCTexts
    chunk_size = 10
    chunk_overlap = 3
    MaxMarks = 2
INVARIANTS IInv TextsKept SearchRanks NamesOrderRight ShipmentsAdvance
\* An input is evaluated once it is complete.
CHECK_DEADLOCK FALSE
