\* A turn calls tools on one executor thread; two threads that serve the shop share the pool with it.
SPECIFICATION Spec
CONSTANTS
    Handlers = {h1, h2}
    ToolThreads = {w1}
    Emails = {e1}
    Categories = {g1}
    MaxConn = 2
    MaxRequests = 2
    Turns = {t1}
    Stranger = stranger
    MaxSteps = 1
    MaxCalls = 2
    NoItem = noitem
INVARIANTS IInv ConnectionsAccounted WelcomedOnce ReceiptNotOlder ProductsHaveCategory OwnObservations
PROPERTIES AbandonedNeverStarts EveryTurnEnds
\* After the shutdown nothing happens.
CHECK_DEADLOCK FALSE
