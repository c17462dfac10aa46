\* Checkouts, payments and sweeps that may deadlock all end, and overdue orders are settled.
SPECIFICATION FairSpec
CONSTANTS
    Users = {u1}
    Products = {1, 2}
    OrderIds = {1, 2}
    Clients = {c1}
    Sweeper = sweeper
    NoUser = nouser
    MaxQty = 1
    StockLevels = {1}
    PriceLevels = {1}
    SweepLimit = 1
    Calls = {"create", "add_to_cart", "clear_cart", "toggle_status", "pay"}
PROPERTIES TransactionsEnd OverdueSettles
\* Once all order ids are used the bounded instance may stop.
CHECK_DEADLOCK FALSE
