\* One console indexes the directory, and again after a restart.
SPECIFICATION Spec
CONSTANTS
    Docs = {1}
    Everything = everything
    Consoles = {k1}
    Server = server
    Searchers = {t1}
    Queries = {everything}
    Piles = {everything}
    MaxRuns = 2
    Parts = 2
    NoAnswer = noanswer
INVARIANT Bm25InSync
\* Files and runs are bounded, so the instance may stop.
CHECK_DEADLOCK FALSE
