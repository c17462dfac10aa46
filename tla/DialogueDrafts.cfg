\* Every way to prepare, drop, confirm and clarify an order, with streams that
\* disconnect and a process that crashes.
SPECIFICATION Spec
CONSTANTS
    Products = {p1}
    NoProduct = noproduct
    Messages <- OrderingMessages
    Quantities = {0, 1}
    DraftIds = {1, 2}
    CallIds = {1, 2, 3}
    Faults = {"disconnect", "crash"}
INVARIANTS IInv OrderedOnlyIfConfirmed PendingIsLastAsked
PROPERTY ReportedDraftIsDone
\* The numbers of drafts and calls are bounded, so a turn may be unable to go on.
CHECK_DEADLOCK FALSE
