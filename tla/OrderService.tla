---------------------------- MODULE OrderService ----------------------------
(***************************************************************************)
(* The order transactions of the shop: checkout of the cart (create),      *)
(* direct checkout (create_direct), pay, cancel, the sweeper that cancels  *)
(* overdue orders, the cart statements and the two administrator           *)
(* statements that write product rows.                                     *)
(*                                                                         *)
(* The database is PostgreSQL at READ COMMITTED: a statement reads what is *)
(* committed when it starts, a row lock is held to the end of the          *)
(* transaction and nobody sees a write before its commit.  A transaction   *)
(* is therefore a record of what it read, the row locks it holds and those *)
(* its current statement still has to take, and its writes take effect in  *)
(* the commit step.  A step is one lock acquired, the code between two     *)
(* blocking statements, or a commit.                                       *)
(***************************************************************************)
EXTENDS Integers, FiniteSets

CONSTANTS
    Users,          \* customers
    Products,       \* product ids, in the order ORDER BY product_id gives
    OrderIds,       \* ids the orders sequence can hand out; bounds the orders
    Clients,        \* request threads, each runs one transaction at a time
    Sweeper,        \* the thread of the background task of main.py
    NoUser,         \* the owner of no order
    MaxQty,         \* bound on a cart row's quantity
    StockLevels,    \* stock values an administrator may write
    PriceLevels,    \* prices an administrator may write
    SweepLimit,     \* LIMIT of the scan in cancel_expired
    Calls           \* the API calls customers and administrators make

ASSUME ProductsAssumption == Products \subseteq Nat
ASSUME OrderIdsAssumption == OrderIds \subseteq Nat \ {0}
ASSUME SweeperAssumption == Sweeper \notin Clients
ASSUME NoUserAssumption == NoUser \notin Users
ASSUME MaxQtyAssumption == MaxQty \in Nat \ {0}
ASSUME LevelsAssumption == StockLevels \subseteq Nat /\ PriceLevels \subseteq Nat
ASSUME SweepLimitAssumption == SweepLimit \in Nat \ {0}

ASSUME CallsAssumption ==
    Calls \subseteq {"create", "create_direct", "pay", "cancel", "clear_cart", "add_to_cart",
                     "update_cart", "remove_from_cart", "update_product", "toggle_status"}

VARIABLES
    stock,      \* shop.products.stock
    price,      \* shop.products.price
    onSale,     \* products whose status is 'on_sale'
    cart,       \* shop.cart_items: quantity of each user and product, 0: no row
    orders,     \* shop.orders with their shop.order_items
    payments,   \* number of shop.payment_records of each order
    shipments,  \* number of shop.logistics_records of each order
    overdue,    \* pending orders whose payment window has passed
    tx,         \* the transaction each thread is running
    batch       \* rows of the sweeper's scan it has not handled yet

goods == <<stock, price, onSale>>
books == <<orders, payments, shipments, overdue>>
vars == <<stock, price, onSale, cart, orders, payments, shipments, overdue, tx, batch>>

Workers == Clients \union {Sweeper}
Quantities == 1..MaxQty
NoOrder == 0
Nothing == [p \in Products |-> 0]

ProductRow(p) == <<"product", p>>
OrderRow(o) == <<"order", o>>
CartRow(u, p) == <<"cart", <<u, p>>>>
Rows == {ProductRow(p) : p \in Products} \union {OrderRow(o) : o \in OrderIds}
        \union {CartRow(u, p) : u \in Users, p \in Products}

NoOrderRecord == [status |-> "none", user |-> NoUser, items |-> Nothing, prices |-> Nothing]

IdleTx == [step |-> "idle", user |-> NoUser, order |-> NoOrder,
           items |-> Nothing, prices |-> Nothing, todo |-> {}, held |-> {}]

Statuses == {"none", "pending", "paid", "cancelled"}
Steps == {"idle", "cart", "products", "clear", "lock", "insert", "empty",
          "pay", "paying", "cancel", "restock"}
Amounts == [Products -> Nat]

Order == [status : Statuses, user : Users \union {NoUser}, items : Amounts, prices : Amounts]
Transaction == [step : Steps, user : Users \union {NoUser}, order : OrderIds \union {NoOrder},
                items : Amounts, prices : Amounts, todo : SUBSET Rows, held : SUBSET Rows]

TypeOK ==
    /\ stock \in [Products -> Int]
    /\ price \in Amounts
    /\ onSale \subseteq Products
    /\ cart \in [Users -> Amounts]
    /\ orders \in [OrderIds -> Order]
    /\ payments \in [OrderIds -> Nat]
    /\ shipments \in [OrderIds -> Nat]
    /\ overdue \subseteq OrderIds
    /\ tx \in [Workers -> Transaction]
    /\ batch \subseteq OrderIds

-----------------------------------------------------------------------------
(* Row locks *)

Basket(w) == {p \in Products : tx[w].items[p] > 0}

\* Mutant of Free: a lock mode that does not conflict with itself (FOR SHARE).
SharedLock(w, r) == TRUE

\* A row nobody else has locked.
Free(w, r) == \A v \in Workers \ {w} : r \notin tx[v].held

\* The rows the current statement may be asking for next: cart rows are
\* locked in product order, the other statements name no order.
Wanted(w) ==
    IF tx[w].step = "cart"
    THEN {CartRow(tx[w].user, p) : p \in
             {p \in Products : /\ CartRow(tx[w].user, p) \in tx[w].todo
                               /\ \A q \in Products :
                                     CartRow(tx[w].user, q) \in tx[w].todo => p <= q}}
    ELSE tx[w].todo

\* Mutant of EndTx: the connection goes back to the pool with its transaction open.
LeaveTxOpen(w, dead) == [tx EXCEPT ![w] = [IdleTx EXCEPT !.held = tx[w].held]]

\* w ends its transaction.  The rows it deleted are dead for the statements
\* that were waiting for them, which skip them.
EndTx(w, dead) ==
    [v \in Workers |-> IF v = w THEN IdleTx ELSE [tx[v] EXCEPT !.todo = @ \ dead]]

\* Mutant of AcquireCartRow: the cart is read without FOR UPDATE.
ReadCartRowUnlocked(w, p) ==
    LET r == CartRow(tx[w].user, p) IN
    /\ tx[w].step = "cart"
    /\ r \in Wanted(w)
    /\ tx' = [tx EXCEPT ![w].todo = @ \ {r}, ![w].items[p] = cart[tx[w].user][p]]
    /\ UNCHANGED <<goods, cart, books, batch>>

\* A cart row is read again, in its latest version, once it is locked.
AcquireCartRow(w, p) ==
    LET r == CartRow(tx[w].user, p) IN
    /\ tx[w].step = "cart"
    /\ r \in Wanted(w)
    /\ Free(w, r)
    /\ tx' = [tx EXCEPT ![w].todo = @ \ {r}, ![w].held = @ \union {r},
                        ![w].items[p] = cart[tx[w].user][p]]
    /\ UNCHANGED <<goods, cart, books, batch>>

AcquireRow(w, r) ==
    /\ tx[w].step # "cart"
    /\ r \in Wanted(w)
    /\ Free(w, r)
    /\ tx' = [tx EXCEPT ![w].todo = @ \ {r}, ![w].held = @ \union {r}]
    /\ UNCHANGED <<goods, cart, books, batch>>

\* The workers of S wait for each other in a circle.
WaitCycle(S) ==
    \E next \in [S -> S] :
        /\ \A v \in S : \E x \in S : next[x] = v
        /\ \A v \in S : next[v] # v /\ Wanted(v) \intersect tx[next[v]].held # {}

-----------------------------------------------------------------------------
(* Every way a transaction ends without a commit *)

\* Mutant of Reject: the sweeper starts over with the row that was rejected.
RejectKeepsRow(w) ==
    /\ tx' = EndTx(w, {})
    /\ UNCHANGED <<goods, cart, books, batch>>

\* ValueError: the handler rejects and get_conn rolls back.  cancel_expired
\* catches it and goes on with the next row.
Reject(w) ==
    /\ tx' = EndTx(w, {})
    /\ batch' = IF w = Sweeper THEN batch \ {tx[w].order} ELSE batch
    /\ UNCHANGED <<goods, cart, books>>

\* Any other exception: cancel_expired does not catch it, so the rest of the
\* sweeper's scan is abandoned.
RollBack(w) ==
    /\ tx' = EndTx(w, {})
    /\ batch' = IF w = Sweeper THEN {} ELSE batch
    /\ UNCHANGED <<goods, cart, books>>

\* The connection, the thread or the process dies.
Fail(w) ==
    /\ tx[w].step # "idle"
    /\ RollBack(w)

\* PostgreSQL aborts one transaction of a wait cycle.
ResolveDeadlock(w) ==
    /\ \E S \in SUBSET Workers : w \in S /\ WaitCycle(S)
    /\ RollBack(w)

-----------------------------------------------------------------------------
(* create: checkout of the cart *)

UnusedIds == {o \in OrderIds : orders[o].status = "none" /\ \A v \in Workers : tx[v].order # o}

\* Bound: no more checkouts are started than ids are left.
IdLeft ==
    Cardinality(UnusedIds)
        > Cardinality({v \in Workers : tx[v].step \in {"cart", "products", "lock"}})

CartRows(u) == {CartRow(u, p) : p \in {p \in Products : cart[u][p] > 0}}

\* The join reads the prices without locking the product rows.  An empty cart
\* is a ValueError that changes nothing.
BeginCreate(w, u) ==
    /\ tx[w].step = "idle"
    /\ CartRows(u) # {}
    /\ IdLeft
    /\ tx' = [tx EXCEPT ![w] =
                [IdleTx EXCEPT !.step = "cart", !.user = u, !.todo = CartRows(u),
                    !.prices = [p \in Products |-> IF cart[u][p] > 0 THEN price[p] ELSE 0]]]
    /\ UNCHANGED <<goods, cart, books, batch>>

\* SELECT ... WHERE id IN ... AND status = 'on_sale' FOR UPDATE, no ORDER BY.
LockProducts(w) ==
    /\ tx[w].step = "cart"
    /\ tx[w].todo = {}
    /\ Basket(w) # {}
    /\ tx' = [tx EXCEPT ![w].step = "products",
                        ![w].todo = {ProductRow(p) : p \in Basket(w) \intersect onSale}]
    /\ UNCHANGED <<goods, cart, books, batch>>

\* Mutant of Available: only the status is checked under the lock.
AvailableIfOnSale(w) == \A p \in Basket(w) : ProductRow(p) \in tx[w].held /\ p \in onSale

\* Every product of the basket is locked, still on sale and in stock.
Available(w) ==
    \A p \in Basket(w) : /\ ProductRow(p) \in tx[w].held
                         /\ p \in onSale
                         /\ stock[p] >= tx[w].items[p]

\* Stock check, UPDATE of the stock, INSERT of the order and its items; then
\* DELETE FROM cart_items WHERE user_id, which takes the rows it finds.
Reserve(w) ==
    /\ tx[w].step = "products"
    /\ tx[w].todo = {}
    /\ Available(w)
    /\ \E o \in UnusedIds :
          /\ \A q \in UnusedIds : o <= q
          /\ tx' = [tx EXCEPT ![w].step = "clear", ![w].order = o,
                              ![w].todo = CartRows(tx[w].user) \ tx[w].held]
    /\ UNCHANGED <<goods, cart, books, batch>>

CreateRejects(w) ==
    /\ tx[w].todo = {}
    /\ \/ tx[w].step = "cart" /\ Basket(w) = {}
       \/ tx[w].step = "products" /\ ~Available(w)
    /\ Reject(w)

\* What the committed INSERTs and UPDATEs of a checkout leave behind.
PlaceOrder(w) ==
    /\ orders' = [orders EXCEPT ![tx[w].order] =
                    [status |-> "pending", user |-> tx[w].user,
                     items |-> tx[w].items, prices |-> tx[w].prices]]
    /\ stock' = [p \in Products |-> stock[p] - tx[w].items[p]]
    /\ UNCHANGED <<price, onSale, payments, shipments, overdue, batch>>

\* The rows the DELETE has locked are gone after the commit.
DeleteCartRows(w) ==
    /\ cart' = [cart EXCEPT ![tx[w].user] =
                  [p \in Products |-> IF CartRow(tx[w].user, p) \in tx[w].held
                                      THEN 0 ELSE cart[tx[w].user][p]]]
    /\ tx' = EndTx(w, {r \in tx[w].held : \E p \in Products : r = CartRow(tx[w].user, p)})

CommitCreate(w) ==
    /\ tx[w].step = "clear"
    /\ tx[w].todo = {}
    /\ PlaceOrder(w)
    /\ DeleteCartRows(w)

-----------------------------------------------------------------------------
(* create_direct: one product, no cart *)

BeginDirect(w, u, p, q) ==
    /\ tx[w].step = "idle"
    /\ IdLeft
    /\ tx' = [tx EXCEPT ![w] =
                [IdleTx EXCEPT !.step = "lock", !.user = u, !.items[p] = q,
                               !.todo = {ProductRow(p)}]]
    /\ UNCHANGED <<goods, cart, books, batch>>

\* Mutant of InsertDirect: the product is read on a connection of its own, and
\* its lock is gone when the order is inserted.
InsertDirectUnlocked(w) ==
    /\ tx[w].step = "lock"
    /\ tx[w].todo = {}
    /\ Available(w)
    /\ \E o \in UnusedIds :
          /\ \A q \in UnusedIds : o <= q
          /\ tx' = [tx EXCEPT ![w].step = "insert", ![w].order = o, ![w].held = {},
                       ![w].prices = [p \in Products |-> IF p \in Basket(w) THEN price[p] ELSE 0]]
    /\ UNCHANGED <<goods, cart, books, batch>>

\* Here the price is read from the locked row.
InsertDirect(w) ==
    /\ tx[w].step = "lock"
    /\ tx[w].todo = {}
    /\ Available(w)
    /\ \E o \in UnusedIds :
          /\ \A q \in UnusedIds : o <= q
          /\ tx' = [tx EXCEPT ![w].step = "insert", ![w].order = o,
                       ![w].prices = [p \in Products |-> IF p \in Basket(w) THEN price[p] ELSE 0]]
    /\ UNCHANGED <<goods, cart, books, batch>>

DirectRejects(w) ==
    /\ tx[w].step = "lock"
    /\ tx[w].todo = {}
    /\ ~Available(w)
    /\ Reject(w)

CommitDirect(w) ==
    /\ tx[w].step = "insert"
    /\ PlaceOrder(w)
    /\ tx' = EndTx(w, {})
    /\ UNCHANGED cart

-----------------------------------------------------------------------------
(* pay *)

BeginPay(w, u, o) ==
    /\ tx[w].step = "idle"
    /\ orders[o].status # "none"
    /\ tx' = [tx EXCEPT ![w] = [IdleTx EXCEPT !.step = "pay", !.user = u, !.order = o,
                                              !.todo = {OrderRow(o)}]]
    /\ UNCHANGED <<goods, cart, books, batch>>

\* Mutant of Payable: only a cancelled order is refused.
PayableAgain(w) ==
    /\ orders[tx[w].order].user = tx[w].user
    /\ orders[tx[w].order].status # "cancelled"

Payable(w) ==
    /\ orders[tx[w].order].user = tx[w].user
    /\ orders[tx[w].order].status \notin {"paid", "cancelled"}

CheckPay(w) ==
    /\ tx[w].step = "pay"
    /\ tx[w].todo = {}
    /\ Payable(w)
    /\ tx' = [tx EXCEPT ![w].step = "paying"]
    /\ UNCHANGED <<goods, cart, books, batch>>

PayRejects(w) ==
    /\ tx[w].step = "pay"
    /\ tx[w].todo = {}
    /\ ~Payable(w)
    /\ Reject(w)

CommitPay(w) ==
    LET o == tx[w].order IN
    /\ tx[w].step = "paying"
    /\ orders' = [orders EXCEPT ![o].status = "paid"]
    /\ payments' = [payments EXCEPT ![o] = @ + 1]
    /\ shipments' = [shipments EXCEPT ![o] = @ + 1]
    /\ overdue' = overdue \ {o}
    /\ tx' = EndTx(w, {})
    /\ UNCHANGED <<goods, cart, batch>>

-----------------------------------------------------------------------------
(* cancel, called by a customer or by the sweeper *)

BeginCancel(w, u, o) ==
    /\ tx[w].step = "idle"
    /\ orders[o].status # "none"
    /\ tx' = [tx EXCEPT ![w] = [IdleTx EXCEPT !.step = "cancel", !.user = u, !.order = o,
                                              !.todo = {OrderRow(o)}]]
    /\ UNCHANGED <<goods, cart, books, batch>>

\* Mutant of Cancellable: only a cancelled order is refused.
CancellableIfPaid(w) ==
    /\ orders[tx[w].order].user = tx[w].user
    /\ orders[tx[w].order].status # "cancelled"

Cancellable(w) ==
    /\ orders[tx[w].order].user = tx[w].user
    /\ orders[tx[w].order].status = "pending"

\* The status is set and one UPDATE per order item takes that product's row.
CheckCancel(w) ==
    LET items == orders[tx[w].order].items IN
    /\ tx[w].step = "cancel"
    /\ tx[w].todo = {}
    /\ Cancellable(w)
    /\ tx' = [tx EXCEPT ![w].step = "restock", ![w].items = items,
                        ![w].todo = {ProductRow(p) : p \in {p \in Products : items[p] > 0}}]
    /\ UNCHANGED <<goods, cart, books, batch>>

CancelRejects(w) ==
    /\ tx[w].step = "cancel"
    /\ tx[w].todo = {}
    /\ ~Cancellable(w)
    /\ Reject(w)

\* Mutant of CommitCancel: the stock is not put back.
CommitCancelOnly(w) ==
    LET o == tx[w].order IN
    /\ tx[w].step = "restock"
    /\ tx[w].todo = {}
    /\ orders' = [orders EXCEPT ![o].status = "cancelled"]
    /\ overdue' = overdue \ {o}
    /\ tx' = EndTx(w, {})
    /\ batch' = IF w = Sweeper THEN batch \ {o} ELSE batch
    /\ UNCHANGED <<goods, cart, payments, shipments>>

CommitCancel(w) ==
    LET o == tx[w].order IN
    /\ tx[w].step = "restock"
    /\ tx[w].todo = {}
    /\ orders' = [orders EXCEPT ![o].status = "cancelled"]
    /\ stock' = [p \in Products |-> stock[p] + tx[w].items[p]]
    /\ overdue' = overdue \ {o}
    /\ tx' = EndTx(w, {})
    /\ batch' = IF w = Sweeper THEN batch \ {o} ELSE batch
    /\ UNCHANGED <<price, onSale, cart, payments, shipments>>

-----------------------------------------------------------------------------
(* cancel_expired, run again and again by _order_timeout_sweeper *)

\* created_at < NOW() - timeout becomes true of a pending order.
WindowPasses(o) ==
    /\ orders[o].status = "pending"
    /\ o \notin overdue
    /\ overdue' = overdue \union {o}
    /\ UNCHANGED <<goods, cart, orders, payments, shipments, tx, batch>>

\* An unlocked read of the oldest overdue orders; ids grow with created_at.
SweepScan ==
    /\ tx[Sweeper].step = "idle"
    /\ batch = {}
    /\ batch' = {o \in overdue : Cardinality({q \in overdue : q < o}) < SweepLimit}
    /\ batch' # {}
    /\ UNCHANGED <<goods, cart, books, tx>>

SweepNext ==
    \E o \in batch :
        /\ \A q \in batch : o <= q
        /\ BeginCancel(Sweeper, orders[o].user, o)

-----------------------------------------------------------------------------
(* Single statements: the cart service and the administrator *)

\* SELECT of the product, then the upsert; both are over when it commits.
AddToCart(u, p, q) ==
    /\ p \in onSale
    /\ cart[u][p] + q <= MaxQty
    /\ \A w \in Workers : CartRow(u, p) \notin tx[w].held
    /\ cart' = [cart EXCEPT ![u][p] = @ + q]
    /\ UNCHANGED <<goods, books, tx, batch>>

\* Mutant of UpdateCart: the quantity is taken for a change of it.
ReduceCart(u, p, q) ==
    /\ cart[u][p] > 0
    /\ \A w \in Workers : CartRow(u, p) \notin tx[w].held
    /\ cart' = [cart EXCEPT ![u][p] = @ - q]
    /\ UNCHANGED <<goods, books, tx, batch>>

UpdateCart(u, p, q) ==
    /\ cart[u][p] > 0
    /\ \A w \in Workers : CartRow(u, p) \notin tx[w].held
    /\ cart' = [cart EXCEPT ![u][p] = q]
    /\ UNCHANGED <<goods, books, tx, batch>>

RemoveFromCart(u, p) ==
    /\ cart[u][p] > 0
    /\ \A w \in Workers : CartRow(u, p) \notin tx[w].held
    /\ cart' = [cart EXCEPT ![u][p] = 0]
    /\ tx' = [w \in Workers |-> [tx[w] EXCEPT !.todo = @ \ {CartRow(u, p)}]]
    /\ UNCHANGED <<goods, books, batch>>

\* DELETE of all the user's rows is a transaction of many locks.
BeginEmptyCart(w, u) ==
    /\ tx[w].step = "idle"
    /\ CartRows(u) # {}
    /\ tx' = [tx EXCEPT ![w] = [IdleTx EXCEPT !.step = "empty", !.user = u,
                                              !.todo = CartRows(u)]]
    /\ UNCHANGED <<goods, cart, books, batch>>

CommitEmptyCart(w) ==
    /\ tx[w].step = "empty"
    /\ tx[w].todo = {}
    /\ DeleteCartRows(w)
    /\ UNCHANGED <<goods, books, batch>>

\* update_product writes the stock and the price of the form, whatever they
\* have become since the form was filled in.
UpdateProduct(p, s, c) ==
    /\ \A w \in Workers : ProductRow(p) \notin tx[w].held
    /\ stock' = [stock EXCEPT ![p] = s]
    /\ price' = [price EXCEPT ![p] = c]
    /\ UNCHANGED <<onSale, cart, books, tx, batch>>

ToggleProductStatus(p) ==
    /\ \A w \in Workers : ProductRow(p) \notin tx[w].held
    /\ onSale' = IF p \in onSale THEN onSale \ {p} ELSE onSale \union {p}
    /\ UNCHANGED <<stock, price, cart, books, tx, batch>>

-----------------------------------------------------------------------------
(* The specification *)

Init ==
    /\ stock \in [Products -> StockLevels]
    /\ price \in [Products -> PriceLevels]
    /\ onSale = Products
    /\ cart = [u \in Users |-> Nothing]
    /\ orders = [o \in OrderIds |-> NoOrderRecord]
    /\ payments = [o \in OrderIds |-> 0]
    /\ shipments = [o \in OrderIds |-> 0]
    /\ overdue = {}
    /\ tx = [w \in Workers |-> IdleTx]
    /\ batch = {}

Acquire(w) == \/ \E p \in Products : AcquireCartRow(w, p)
              \/ \E r \in Rows : AcquireRow(w, r)

Checkout(w) == LockProducts(w) \/ Reserve(w) \/ CreateRejects(w) \/ CommitCreate(w)
Direct(w) == InsertDirect(w) \/ DirectRejects(w) \/ CommitDirect(w)
Pay(w) == CheckPay(w) \/ PayRejects(w) \/ CommitPay(w)
Cancel(w) == CheckCancel(w) \/ CancelRejects(w) \/ CommitCancel(w)

\* The steps of a transaction that is under way.
Continue(w) == Acquire(w) \/ Checkout(w) \/ Direct(w) \/ Pay(w) \/ Cancel(w) \/ CommitEmptyCart(w)

Request(w, u) ==
    \/ "create" \in Calls /\ BeginCreate(w, u)
    \/ "create_direct" \in Calls /\ \E p \in Products, q \in Quantities : BeginDirect(w, u, p, q)
    \/ "pay" \in Calls /\ \E o \in OrderIds : BeginPay(w, u, o)
    \/ "cancel" \in Calls /\ \E o \in OrderIds : BeginCancel(w, u, o)
    \/ "clear_cart" \in Calls /\ BeginEmptyCart(w, u)

EditCart(u, p) ==
    \/ "add_to_cart" \in Calls /\ \E q \in Quantities : AddToCart(u, p, q)
    \/ "update_cart" \in Calls /\ \E q \in Quantities : UpdateCart(u, p, q)
    \/ "remove_from_cart" \in Calls /\ RemoveFromCart(u, p)

Administer(p) ==
    \/ "update_product" \in Calls /\ \E s \in StockLevels, c \in PriceLevels : UpdateProduct(p, s, c)
    \/ "toggle_status" \in Calls /\ ToggleProductStatus(p)

Next ==
    \/ \E w \in Workers : Continue(w) \/ Fail(w) \/ ResolveDeadlock(w)
    \/ \E w \in Clients, u \in Users : Request(w, u)
    \/ \E u \in Users, p \in Products : EditCart(u, p)
    \/ \E p \in Products : Administer(p)
    \/ \E o \in OrderIds : WindowPasses(o)
    \/ SweepScan
    \/ SweepNext

Spec == Init /\ [][Next]_vars

\* Threads run, and PostgreSQL serves the queue of a row lock in order and
\* looks for wait cycles, so nobody who waits for a lock is passed by forever.
RunFairness ==
    \A w \in Workers :
        /\ SF_vars(Acquire(w))
        /\ WF_vars(Checkout(w) \/ Direct(w) \/ Pay(w) \/ Cancel(w) \/ CommitEmptyCart(w))
        /\ WF_vars(ResolveDeadlock(w))

\* The sweeper's loop goes on for ever, and from some point on its sweeps are
\* not cut short, be it as the victim of a deadlock.
SweepFairness ==
    /\ WF_vars(SweepScan)
    /\ WF_vars(SweepNext)
    /\ <>[][~Fail(Sweeper)]_vars

RunSpec == Spec /\ RunFairness
FairSpec == RunSpec /\ SweepFairness

-----------------------------------------------------------------------------
(* Properties *)

\* No row is locked by two transactions at once: what FOR UPDATE and the
\* UPDATEs of order/service.py rely on.
LocksExclusive ==
    \A v, w \in Workers : v # w => tx[v].held \intersect tx[w].held = {}

\* What a checkout is about to order is still in the cart, in that quantity,
\* until it commits: two checkouts of one user never order the same row
\* (the comment at order/service.py:19-23), and no quantity changed meanwhile
\* is ordered.
CartIsOrdered ==
    \A w \in Workers : tx[w].step \in {"cart", "products", "clear"} =>
        \A p \in Basket(w) : cart[tx[w].user][p] = tx[w].items[p]

\* Concurrent checkouts never sell more than there is: neither the stock nor
\* what is left of it after an uncommitted order falls below zero.
NoOversell ==
    \A p \in Products :
        /\ stock[p] >= 0
        /\ \A w \in Workers : tx[w].step \in {"clear", "insert"} => tx[w].items[p] <= stock[p]

\* However payments, cancellations and sweeps race, an order has one payment
\* and one shipment if it is paid, and none otherwise.
PaidOnce ==
    \A o \in OrderIds :
        LET n == IF orders[o].status = "paid" THEN 1 ELSE 0 IN
        payments[o] = n /\ shipments[o] = n

\* Direct checkout charges the price in force when it commits: an
\* administrator cannot change it between the read and the commit.
DirectPriceCurrent ==
    \A w \in Workers : tx[w].step = "insert" =>
        \A p \in Basket(w) : tx[w].prices[p] = price[p]

\* Units of p taken by orders that were not cancelled.
Reserved(p) ==
    Cardinality({unit \in OrderIds \X Quantities :
                    /\ orders[unit[1]].status \in {"pending", "paid"}
                    /\ unit[2] <= orders[unit[1]].items[p]})

\* Placing, paying and cancelling move units between stock and orders and
\* lose or create none: cancel puts back what create took, exactly once.
StockConserved ==
    [][orders' # orders =>
          \A p \in Products : stock'[p] + Reserved(p)' = stock[p] + Reserved(p)]_vars

\* An order that was placed is never placed again under its id nor changed: it
\* keeps its customer, items and prices, and once it is paid or cancelled its
\* status, its payment and its shipment, whoever was about to settle it too.
OrdersKept ==
    [][\A o \in OrderIds :
          /\ orders[o].status # "none" =>
                /\ orders'[o].status # "none"
                /\ orders'[o].user = orders[o].user
                /\ orders'[o].items = orders[o].items
                /\ orders'[o].prices = orders[o].prices
          /\ orders[o].status \in {"paid", "cancelled"} =>
                /\ orders'[o].status = orders[o].status
                /\ payments'[o] = payments[o]
                /\ shipments'[o] = shipments[o]]_vars

Ledger == INSTANCE ShopLedger WITH stock <- stock, orders <- orders, payments <- payments

\* Seen from stock, orders and payments alone, the interleaved transactions
\* are a sequence of indivisible ledger operations.
LedgerSpec == Ledger!Spec

\* Every transaction ends: the database breaks the wait cycles that
\* lock orders of create and cancel allow, and no lock is kept by a thread
\* that went idle.
TransactionsEnd == \A w \in Workers : tx[w].step # "idle" ~> tx[w].step = "idle"

\* An order whose payment window has passed does not stay pending for ever,
\* even if other rows of the sweep were settled meanwhile.
OverdueSettles == \A o \in OrderIds : o \in overdue ~> o \notin overdue

-----------------------------------------------------------------------------
(* The inductive invariant behind LocksExclusive, CartIsOrdered, NoOversell *)
(* and PaidOnce: what a transaction knows of the rows it has locked.        *)

\* Only known customers own orders and run transactions.
UsersKnown ==
    /\ \A w \in Workers : tx[w].step # "idle" => tx[w].user \in Users
    /\ \A o \in OrderIds : orders[o].status # "none" => orders[o].user \in Users

\* The basket of a checkout is in cart rows it holds.
CartHeld ==
    \A w \in Workers : tx[w].step \in {"cart", "products", "clear"} =>
        \A p \in Products : tx[w].items[p] > 0 =>
            /\ CartRow(tx[w].user, p) \in tx[w].held
            /\ cart[tx[w].user][p] = tx[w].items[p]

\* What an uncommitted order takes is in product rows its transaction holds.
StockHeld ==
    /\ \A p \in Products : stock[p] >= 0
    /\ \A w \in Workers : tx[w].step \in {"clear", "insert"} =>
          \A p \in Products : tx[w].items[p] > 0 =>
              ProductRow(p) \in tx[w].held /\ tx[w].items[p] <= stock[p]

\* Nobody else settles an order whose row is held.
OrderHeld ==
    \A w \in Workers :
        /\ tx[w].step \in {"pay", "cancel"} =>
              /\ tx[w].order \in OrderIds
              /\ OrderRow(tx[w].order) \in tx[w].todo \union tx[w].held
              /\ orders[tx[w].order].status # "none"
        /\ tx[w].step \in {"paying", "restock"} =>
              /\ tx[w].order \in OrderIds
              /\ OrderRow(tx[w].order) \in tx[w].held
              /\ orders[tx[w].order].status = "pending"
        /\ tx[w].step = "restock" => tx[w].items = orders[tx[w].order].items

\* No order is placed for nothing.
BasketFull ==
    \A w \in Workers : tx[w].step \in {"products", "clear", "lock", "insert"} =>
        \E p \in Products : tx[w].items[p] > 0

\* Ids given to uncommitted orders are nobody else's.
FreshIds ==
    \A w \in Workers : tx[w].step \in {"clear", "insert"} =>
        /\ tx[w].order \in OrderIds
        /\ orders[tx[w].order].status = "none"
        /\ \A v \in Workers \ {w} : tx[v].order # tx[w].order

\* Inductive: each part is kept by every step, given the others.
IInv ==
    /\ TypeOK
    /\ UsersKnown
    /\ LocksExclusive
    /\ CartHeld
    /\ StockHeld
    /\ OrderHeld
    /\ BasketFull
    /\ FreshIds
    /\ PaidOnce

\* Every quantity in a cart, in a running transaction and in an order, is one a
\* cart row can have: it is added, updated, locked and ordered without going
\* below zero or above the bound, and finitely many orders are placed, so that
\* StockConserved counts units.  Inductive together with IInv.
Within(amounts) == \A p \in Products : amounts[p] \in 0..MaxQty

AmountsBounded ==
    /\ \A u \in Users : Within(cart[u])
    /\ \A w \in Workers : Within(tx[w].items)
    /\ \A o \in OrderIds : Within(orders[o].items)
    /\ IsFiniteSet({o \in OrderIds : orders[o].status # "none"})

=============================================================================
