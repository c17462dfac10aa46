\* Three threads store messages of two conversations, of which the table keeps one mutex.
SPECIFICATION Spec
CONSTANTS
    Conversations = {k1, k2}
    Threads = {t1, t2, t3}
    LockIds = {1, 2, 3, 4}
    None = none
    MaxLocks = 1
    MaxDropped = 1
    MaxMessages = 3
SYMMETRY Symmetry
INVARIANTS IInv NumbersInOrder
PROPERTY LogSpec
\* The messages of a conversation are bounded, so the instance stops.
CHECK_DEADLOCK FALSE
