\* A turn calls tools whose statements may hang.
SPECIFICATION Spec
CONSTANTS
    Handlers = {h1}
    ToolThreads = {w1}
    Emails = {e1}
    Categories = {g1}
    MaxConn = 2
    MaxRequests = 0
    Turns = {t1}
    Stranger = stranger
    MaxSteps = 1
    MaxCalls = 2
    NoItem = noitem
PROPERTY StuckThreadsReturn
\* After the shutdown nothing happens.
CHECK_DEADLOCK FALSE
