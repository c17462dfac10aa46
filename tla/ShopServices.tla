---------------------------- MODULE ShopServices ----------------------------
(***************************************************************************)
(* The services that run several statements, each on a connection of its   *)
(* own and in a transaction of its own (query_one, query_all, execute):    *)
(* registration, after-sale requests, categories and products, and the     *)
(* reads of the agents' tools.                                             *)
(*                                                                         *)
(* A thread takes a connection of the pool, sends the statement, commits   *)
(* and gives the connection back; between two statements it holds none, so *)
(* other threads run in between, and the next getconn may find the pool    *)
(* exhausted when the statements before it are already committed.          *)
(***************************************************************************)
EXTENDS Naturals, Sequences, FiniteSets, FiniteSetsExt

CONSTANTS
    Handlers,       \* threads that serve HTTP requests
    ToolThreads,    \* threads of asyncio's executor, which run tools
    Emails,         \* addresses to register
    Categories,     \* category ids
    MaxConn,        \* capacity of the connection pool
    MaxRequests     \* bound on the requests served

ASSUME ThreadsAssumption == Handlers \intersect ToolThreads = {}
ASSUME BoundsAssumption == MaxConn \in Nat \ {0} /\ MaxRequests \in Nat

VARIABLES
    run,        \* the call each thread is in
    inUse,      \* threads whose connection the pool counts as used
    requests,   \* number of requests served, bounded
    serving,    \* whether the server takes requests: FALSE once it shuts down
    users,      \* addresses in shop.users
    tickets,    \* after-sale requests of one paid order, by id
    nextTicket, \* the ticket sequence
    category,   \* rows of shop.categories
    products,   \* number of products of each category
    welcomed,   \* history: registrations answered with success, by address
    receipts    \* history: requests answered, the ticket inserted and the one shown

tables == <<users, tickets, nextTicket, category, products>>
history == <<requests, welcomed, receipts>>
pool == <<inUse, serving>>
serviceVars == <<run, pool, tables, history>>

Threads == Handlers \union ToolThreads

\* The statements of each call.  A tool of the agents reads once or twice.
Script == [register |-> <<"user?", "user+", "user">>,
           create_after_sale |-> <<"order?", "ticket+", "ticket">>,
           delete_category |-> <<"products?", "category-">>,
           create_product |-> <<"product+">>,
           query_order |-> <<"order", "items">>,
           list_my_orders |-> <<"orders">>]

ServiceCalls == {"register", "create_after_sale", "delete_category",
                 "create_product"}
Tools == {"query_order", "list_my_orders"}
Calls == ServiceCalls \union Tools

\* at: the statement the call is at; conn: its connection; about: the address
\* or category; ticket: the id its request was given.
Run == [call : Calls \union {"none"}, at : 0..3, conn : {"none", "used", "closed"},
        about : Emails \union Categories \union {0}, ticket : 0..MaxRequests]
Idle == [call |-> "none", at |-> 0, conn |-> "none", about |-> 0, ticket |-> 0]

ServicesTypeOK ==
    /\ run \in [Threads -> Run]
    /\ inUse \subseteq Threads
    /\ requests \in 0..MaxRequests
    /\ serving \in BOOLEAN
    /\ users \subseteq Emails
    /\ tickets \subseteq 1..MaxRequests
    /\ nextTicket \in 1..MaxRequests + 1
    /\ category \subseteq Categories
    /\ products \in [Categories -> 0..MaxRequests]
    /\ welcomed \in [Emails -> Nat]
    /\ receipts \subseteq (1..MaxRequests) \X (1..MaxRequests)

-----------------------------------------------------------------------------
(* Connections *)

Statement(w) == Script[run[w].call][run[w].at]
Ready(w, s) == run[w].call # "none" /\ run[w].conn = "used" /\ Statement(w) = s
Free(w) == run[w].call = "none"

\* Mutant of PutConn: only a commit gives the connection back, not a rollback.
PutConnOnCommit(w, failed) == IF failed THEN inUse ELSE inUse \ {w}

PutConn(w, failed) == inUse \ {w}

\* The call ends: with an answer, or with the error of a statement, which the
\* transaction does not survive.
Return(w, failed) ==
    /\ inUse' = PutConn(w, failed)
    /\ run' = [run EXCEPT ![w] = Idle]
    /\ UNCHANGED serving

\* The call goes on with its next statement.
Advance(w) ==
    /\ inUse' = PutConn(w, FALSE)
    /\ run' = [run EXCEPT ![w].at = @ + 1, ![w].conn = "none"]
    /\ UNCHANGED serving

Room == Cardinality(inUse) < MaxConn

\* An INSERT draws its ticket id, and NOW() its time, when it is sent.
Reserved(w) == IF Statement(w) = "ticket+" THEN nextTicket ELSE run[w].ticket

\* get_conn: a connection is taken and the statement sent.  A pool that was
\* closed is made anew.
GetConn(w) ==
    /\ run[w].call # "none"
    /\ run[w].conn = "none"
    /\ Room
    /\ inUse' = inUse \union {w}
    /\ nextTicket' = IF Statement(w) = "ticket+" THEN nextTicket + 1 ELSE nextTicket
    /\ run' = [run EXCEPT ![w].conn = "used", ![w].ticket = Reserved(w)]
    /\ UNCHANGED <<users, tickets, category, products, serving, history>>

\* The pool is exhausted: getconn raises at once, nobody waits.
Exhausted(w) ==
    /\ run[w].call # "none"
    /\ run[w].conn = "none"
    /\ ~Room
    /\ run' = [run EXCEPT ![w] = Idle]
    /\ UNCHANGED <<pool, tables, history>>

\* The statement fails: the connection broke, or the server ended it.
StatementFails(w) ==
    /\ run[w].conn = "used"
    /\ Return(w, TRUE)
    /\ UNCHANGED <<tables, history>>

\* commit, rollback and putconn raise on a connection close_pool has closed.
ClosedUnderneath(w) ==
    /\ run[w].conn = "closed"
    /\ run' = [run EXCEPT ![w] = Idle]
    /\ UNCHANGED <<pool, tables, history>>

-----------------------------------------------------------------------------
(* Calls *)

Start(w, call, about) ==
    /\ Free(w)
    /\ run' = [run EXCEPT ![w] = [Idle EXCEPT !.call = call, !.at = 1, !.about = about]]

\* A request arrives.
Request(w) ==
    /\ serving
    /\ requests < MaxRequests
    /\ requests' = requests + 1
    /\ \/ \E e \in Emails : Start(w, "register", e)
       \/ Start(w, "create_after_sale", 0)
       \/ \E c \in Categories, call \in {"delete_category", "create_product"} :
             Start(w, call, c)
    /\ UNCHANGED <<pool, tables, welcomed, receipts>>

\* Is the address registered?
CheckUser(w) ==
    /\ Ready(w, "user?")
    /\ IF run[w].about \in users THEN Return(w, FALSE) ELSE Advance(w)
    /\ UNCHANGED <<tables, history>>

\* Mutant of UniqueViolation: no UNIQUE on users.email.
NoUniqueViolation(e) == FALSE

UniqueViolation(e) == e \in users

\* The user is inserted, unless another registration was faster.
InsertUser(w) ==
    /\ Ready(w, "user+")
    /\ IF UniqueViolation(run[w].about)
       THEN Return(w, TRUE) /\ UNCHANGED users
       ELSE Advance(w) /\ users' = users \union {run[w].about}
    /\ UNCHANGED <<tickets, nextTicket, category, products, history>>

\* The user is read back and answered.
ReadUser(w) ==
    /\ Ready(w, "user")
    /\ welcomed' = [welcomed EXCEPT ![run[w].about] = @ + 1]
    /\ Return(w, FALSE)
    /\ UNCHANGED <<tables, requests, receipts>>

\* Is the order there, the caller's own, and paid?  It is: an order that is not
\* is refused here and nothing is written.
CheckOrder(w) ==
    /\ Ready(w, "order?")
    /\ Advance(w) \/ Return(w, FALSE)
    /\ UNCHANGED <<tables, history>>

\* The row of the after-sale request is committed.
InsertTicket(w) ==
    /\ Ready(w, "ticket+")
    /\ tickets' = tickets \union {run[w].ticket}
    /\ Advance(w)
    /\ UNCHANGED <<users, nextTicket, category, products, history>>

\* Mutant of Latest: the order of the sort is the other way round.
Earliest == Min(tickets)

\* ORDER BY created_at DESC LIMIT 1.
Latest == Max(tickets)

\* The request is read back as the latest of its user and order.
ReadTicket(w) ==
    /\ Ready(w, "ticket")
    /\ receipts' = receipts \union {<<run[w].ticket, Latest>>}
    /\ Return(w, FALSE)
    /\ UNCHANGED <<tables, requests, welcomed>>

\* Has the category products?
CountProducts(w) ==
    /\ Ready(w, "products?")
    /\ IF products[run[w].about] > 0 THEN Return(w, FALSE) ELSE Advance(w)
    /\ UNCHANGED <<tables, history>>

\* Mutant of Referenced: products.category_id references nothing.
ReferencedByNone(c) == FALSE

Referenced(c) == products[c] > 0

\* The category is deleted, unless a product was added to it meanwhile.
DeleteCategory(w) ==
    /\ Ready(w, "category-")
    /\ category' = IF Referenced(run[w].about) THEN category ELSE category \ {run[w].about}
    /\ Return(w, Referenced(run[w].about))
    /\ UNCHANGED <<users, tickets, nextTicket, products, history>>

\* A product is inserted, if its category exists.
InsertProduct(w) ==
    LET c == run[w].about IN
    /\ Ready(w, "product+")
    /\ products' = IF c \in category THEN [products EXCEPT ![c] = @ + 1] ELSE products
    /\ Return(w, c \notin category)
    /\ UNCHANGED <<users, tickets, nextTicket, category, history>>

\* A statement of a tool: nothing is written.
ReadForTool(w) ==
    /\ run[w].call \in Tools
    /\ run[w].conn = "used"
    /\ IF run[w].at = Len(Script[run[w].call]) THEN Return(w, FALSE) ELSE Advance(w)
    /\ UNCHANGED <<tables, history>>

-----------------------------------------------------------------------------
ServicesInit ==
    /\ run = [w \in Threads |-> Idle]
    /\ inUse = {}
    /\ requests = 0
    /\ serving = TRUE
    /\ users = {}
    /\ tickets = {}
    /\ nextTicket = 1
    /\ category = Categories
    /\ products = [c \in Categories |-> 0]
    /\ welcomed = [e \in Emails |-> 0]
    /\ receipts = {}

\* A statement of a service, once its thread has a connection.
ServiceStatement(w) ==
    \/ CheckUser(w) \/ InsertUser(w) \/ ReadUser(w)
    \/ CheckOrder(w) \/ InsertTicket(w) \/ ReadTicket(w)
    \/ CountProducts(w) \/ DeleteCategory(w) \/ InsertProduct(w)

Connect(w) == GetConn(w) \/ Exhausted(w) \/ StatementFails(w) \/ ClosedUnderneath(w)

-----------------------------------------------------------------------------
(* Properties *)

\* However the services interleave, fail and run into the exhausted pool, the
\* pool counts as used the connections threads hold and no other, and never
\* more than it may have.
ConnectionsAccounted ==
    /\ inUse = {w \in Threads : run[w].conn = "used"}
    /\ Cardinality(inUse) <= MaxConn

\* Of several registrations of an address, which all find it free before one
\* of them inserts it, at most one is answered with success.
WelcomedOnce == \A e \in Emails : welcomed[e] <= (IF e \in users THEN 1 ELSE 0)

\* A customer who asks for an after-sale service is shown the request just
\* made, or one made at the same time, never an older one.
ReceiptNotOlder == \A r \in receipts : r[1] \in tickets /\ r[2] \in tickets /\ r[1] <= r[2]

\* A product's category is never deleted, although delete_category counts the
\* products in one transaction and deletes in another.
ProductsHaveCategory == \A c \in Categories : products[c] > 0 => c \in category

-----------------------------------------------------------------------------
(* Invariants the proofs need *)

\* A call is at one of its statements and is about what it should be; requests
\* run services, and no shutdown closes their connections.
CallsAtStatement == \A w \in Threads :
    /\ run[w].call = "none" => run[w] = Idle
    /\ run[w].call # "none" => run[w].at \in 1..Len(Script[run[w].call])
    /\ run[w].call = "register" => run[w].about \in Emails
    /\ run[w].call \in {"delete_category", "create_product"} => run[w].about \in Categories
    /\ w \in Handlers => run[w].call \notin Tools /\ run[w].conn # "closed"
    /\ w \in ToolThreads => run[w].call \notin ServiceCalls

\* A registration that has inserted its user is the only one, and its customer
\* has not been told.
HasInserted(w) == run[w].call = "register" /\ run[w].at = 3
InsertedOnce == \A w \in Threads : HasInserted(w) =>
    /\ run[w].about \in users /\ welcomed[run[w].about] = 0
    /\ \A v \in Threads : HasInserted(v) /\ run[v].about = run[w].about => v = w

\* The id of an after-sale request is drawn before its row is there.
HasDrawn(w) == run[w].call = "create_after_sale" /\ run[w].at = 2 /\ run[w].conn = "used"
HasTicket(w) == run[w].call = "create_after_sale" /\ run[w].at = 3
TicketsDrawn == \A w \in Threads :
    /\ HasDrawn(w) => run[w].ticket \in 1..MaxRequests
    /\ HasTicket(w) => run[w].ticket \in tickets

\* Every ticket and every product is of a request of its own.
Undrawn == {w \in Threads : /\ run[w].call = "create_after_sale"
                            /\ run[w].at = 1 \/ (run[w].at = 2 /\ run[w].conn = "none")}
Creating(c) == {w \in Threads : run[w].call = "create_product" /\ run[w].about = c}
RequestsCounted ==
    /\ IsFiniteSet(Undrawn) /\ nextTicket + Cardinality(Undrawn) <= requests + 1
    /\ \A c \in Categories :
          IsFiniteSet(Creating(c)) /\ products[c] + Cardinality(Creating(c)) <= requests

ServicesIInv ==
    /\ ServicesTypeOK /\ CallsAtStatement
    /\ IsFiniteSet(inUse) /\ ConnectionsAccounted
    /\ InsertedOnce /\ WelcomedOnce
    /\ TicketsDrawn /\ ReceiptNotOlder
    /\ RequestsCounted /\ ProductsHaveCategory

=============================================================================
