\* The page edits the cart between the comparison and the checkout.
SPECIFICATION Spec
CONSTANTS
    Products = {p1}
    NoProduct = noproduct
    Messages <- OrderingMessages
    Quantities = {0, 1, 2}
    DraftIds = {1}
    CallIds = {1}
    Faults = {}
INVARIANT ConfirmedIsOrdered
\* The numbers of drafts and calls are bounded, so a turn may be unable to go on.
CHECK_DEADLOCK FALSE
