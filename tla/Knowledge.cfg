\* Two consoles index one document while the server searches it, with kills, restarts and outages of Redis.
SPECIFICATION Spec
CONSTANTS
    Docs = {1}
    Everything = everything
    Consoles = {k1, k2}
    Server = server
    Searchers = {t1}
    Queries = {everything}
    Piles = {everything}
    MaxRuns = 2
    Parts = 2
    NoAnswer = noanswer
INVARIANTS IInv WholeTexts StaleOnlyIfExcused
PROPERTY EventuallyCurrent
\* Files and runs are bounded, so the instance may stop.
CHECK_DEADLOCK FALSE
