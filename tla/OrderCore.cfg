\* One cart, edited, and direct checkouts of its product, payment, cancellation, sweep and administration race for one unit.
SPECIFICATION Spec
CONSTANTS
    Users = {u1}
    Products = {1}
    OrderIds = {1, 2}
    Clients = {c1, c2}
    Sweeper = sweeper
    NoUser = nouser
    MaxQty = 2
    StockLevels = {1}
    PriceLevels = {1, 2}
    SweepLimit = 1
    Calls = {"create", "create_direct", "add_to_cart", "update_cart", "remove_from_cart", "update_product", "pay", "cancel"}
SYMMETRY Symmetry
INVARIANTS CartIsOrdered DirectPriceCurrent NoOversell IInv
PROPERTIES LedgerSpec OrdersKept StockConserved
\* Once all order ids are used the bounded instance may stop.
CHECK_DEADLOCK FALSE
