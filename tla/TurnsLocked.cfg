\* Turns in line while the table drops locks, turns break off and clients go
\* away, with threads that store their messages late; or, without a language
\* model, turns that take no lock.
SPECIFICATION MCSpec
CONSTANTS
    Conversations = {k1, k2}
    Turns = {1, 2, 3, 4}
    LockIds = {1, 2, 3, 4}
    NoLock = nolock
    MaxLocks = 1
    MaxDropped = 1
    LlmSettings = {TRUE, FALSE}
INVARIANTS IInv TurnsSerialised AnswersPaired
PROPERTY EveryTurnServed
\* Every request runs one turn, so the instance stops when all are done.
CHECK_DEADLOCK FALSE
