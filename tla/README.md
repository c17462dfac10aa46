# Verification of rag-storage

`rag-storage` is a customer-service assistant on top of a small shop. Customers
browse products, fill a cart, order and pay through a web page, or talk to an
assistant that answers from a knowledge base and can place orders for them. One
FastAPI process serves everything; PostgreSQL holds the shop and the
conversations, SQLite the assistant's checkpoints, Redis a cache, a vector
store and an in-memory BM25 index the knowledge base.

This directory holds TLA+ models of the parts of that program whose
correctness depends on order, concurrency and failure, the TLC configurations
that check them, and TLAPS proofs about each of its stateful components and
about its algorithms. Paths below are relative to `src/`.

## 1. Inventory

### Components, their state and their operations

| Component | State | Operations that change it | Modelled by |
|---|---|---|---|
| order transactions, `domain/shop/order/service.py` | `shop.orders`, `order_items`, `payment_records`, `logistics_records`, `products.stock` | `create`, `create_direct`, `pay`, `cancel`, `cancel_expired` | `OrderService`, `ShopLedger` |
| cart, `domain/shop/cart/service.py` | `shop.cart_items` | `add`, `update`, `remove`, `clear` | `OrderService` |
| administration, `apps/shop/b_endpoint/admin.py` | `shop.products`, `categories` | `update_product`, `toggle_product_status`, `delete_category`, `create_product` | `OrderService`, `ProductCache`, `ShopServices` |
| sweeper, `main.py` | the scan it is working on | `_order_timeout_sweeper` | `OrderService` |
| connection pool, `infrastructure/shop_database.py` | pooled connections | `get_conn`, `execute`, `query_one`, `query_all`, `close_pool` | `ShopServices`, `ToolCalls`; transactions of orders in `OrderService` |
| product reads and cache, `domain/shop/product/service.py`, `infrastructure/cache.py` | keys in Redis, circuit breaker | `get_product`, `list_products`, `get_category_tree`, `get`, `set`, `invalidate` | `ProductCache` |
| dialogue graph, `domain/customer_service/master_graph.py`, `routing.py` | `MasterState`: slots, `pending_intent`, `pending_order`, `order_mode`, `last_order_id` | nodes supervisor, clarify, prepare, commit, cancel, the sub-agents, finish | `OrderDialogue` |
| agent turns, `domain/customer_service/langgraph_agent.py`, `checkpointer.py` | lock table, checkpoint | `arun`, `run_stream`, `_fallback_response` | `ConversationTurns`, `OrderDialogue` |
| conversation store, `utils/conversation.py` | messages with turn numbers, mutex table | `add_message` | `MessageNumbers`, `ConversationTurns` |
| order tools, `tools/` | none | `place_order`, `search_products`, `match_products`; the tools that read | `ProductSearch`; `ToolCalls`; as used by `OrderDialogue` |
| ReAct worker, `domain/customer_service/react.py` | the conversation so far, round, executor queue | `run_react`, `_call_tool` | `ToolCalls` |
| knowledge base, `infrastructure/rag/`, `query.py` | chunks in Chroma, a BM25 index per process, answers in Redis | `_index`, `ingest_dir`, `search`, `search_multi`, `add`, `delete_by_doc_id` | `KnowledgeBase` |
| its algorithms, `retriever.py`, `splitter.py` | none, but for the BM25 index | `split`, `fuse_results`, `generate_query_variants`, `BM25Index` | `TextWindows`, `FaqSplitter`, `Ranking`, `Algorithms` |
| users, after-sale, `domain/shop/` | `shop.users`, `after_sale_requests` | `register`, `create` | `ShopServices` |
| logistics, `domain/shop/logistics/service.py` | none: derived on each read | `derive_logistics` | `Logistics` |
| language model client, prompts, tracing, routes, scripts, web page | none that matters here | - | not modelled |

### How they interact

* The page and the assistant call the same `OrderService` and `CartService`
  methods, from threads of one pool; so a customer's cart has two writers, and
  one cart may be checked out twice at a time. Between them stand only
  PostgreSQL's row locks.
* The sweeper calls `cancel_expired` every minute; it competes with the
  customers' `pay` and `cancel` for the same order rows.
* Every order that commits calls `cache.invalidate` afterwards, outside the
  transaction. Reads fill the cache after their query.
* A turn of the assistant holds the conversation's asyncio lock, stores the
  question, runs the graph, which checkpoints after each node, and stores the
  answer. Node commit calls `OrderService` in a thread; cancelling the turn does
  not stop that thread.
* `add_message` runs in threads, under a mutex of the conversation; a turn that is
  cancelled leaves such a thread behind too, and no longer holds the conversation's lock.
* The tools of a turn run on the threads of asyncio's executor; they, the requests
  of the page, the sweeper and the dialogue's calls share one pool of ten connections.
* Consoles (`query.py`) index the directory and share Chroma and Redis with the
  server, whose BM25 index is the one of its start. That they share Chroma is an assumption:
  `store.py:14` opens a `PersistentClient` on a path, which does not promise that several
  processes see each other's writes as one sequence of calls.

### What is hard, and what makes it correct

* **Order transactions.** READ COMMITTED, locks taken statement by statement,
  an unlocked join for prices, product rows locked without an order, deadlocks
  broken by the database, a scan without locks. Correct means: nothing is
  oversold, a cart row is ordered once, an order is paid and shipped once or
  restocked once, every transaction ends, every overdue order is settled; all of
  it as if requests came one at a time.
* **Ordering by dialogue.** What is pending lives in a checkpoint across turns;
  turns disconnect, processes crash, the cart has another editor, and the
  customer's wording decides. Correct means: nothing is ordered without a confirmation
  of a draft that was pending, and a draft whose report is complete not again.
* **Turns.** Lock tables with eviction, clients that leave while they wait, threads that
  store a message when their turn is gone. Correct means: one turn at a time per
  conversation, questions and answers paired, no wake-up lost.
* **Cache.** Fills race with invalidations, outages swallow them. Correct
  means: stale only in the ways the design accepts, and never for ever.
* **Tools and pool.** A thread cannot be stopped: a turn gives its tool up, the
  thread goes on, calls queue behind it, and a result may come for a call nobody
  waits for. A service of several statements holds no connection between them.
  Correct means: a turn ends, with its own observations; every connection is given
  back once; what a service checked in one transaction is not broken in the next.
* **Knowledge base.** A document is replaced in steps that searches, kills and
  other consoles may fall between. Correct means: whole texts or none, and no answer
  that is stale for good.
* **Algorithms.** Cuts, windows, scores and thresholds at their boundaries; scores of
  another scale, or negative ones, in a fusion; repeated and idle variants of a query.

The complete list of what is hard to test, at its line, is `hazards` in
`PROJECT.json`.

## 2. The modules

```
ShopLedger            what the shop promises: indivisible orders
   ^ implemented by (Ledger == INSTANCE ShopLedger WITH ...)
OrderService          row locks, transactions, sweeper, cart, administrator
OrderDialogue         the graph across turns; a call of OrderService is one step
ConversationTurns     locks and messages of the turns;  add_message is one step
MessageLog            what add_message promises: one indivisible step
   ^ implemented by (Log == INSTANCE MessageLog)
MessageNumbers        add_message opened: numbers under KeyedLocks
ProductCache          cache-aside reads, invalidation, breaker
ShopServices          services of several statements over one connection pool
   ^ extended by
ToolCalls             the ReAct loop, its tools on the executor's threads, shutdown
KnowledgeBase         indexing and searching, Chroma, BM25, kept answers
Ascending             the positions that are kept of a sequence, in order
   ^ extended by
Ranking  ProductSearch  Logistics      computations without recursion
   ^ extended by
TextWindows           how a text without questions is cut
   ^ extended by (Algorithms: with the three above)
Algorithms            their inputs, put together in steps; the rounds of the cutting
FaqSplitter           how questions and answers are cut, recursive; of TextWindows only

MCOrderService, MCOrderDialogue, MCMessageNumbers, MCConversationTurns
                      instances for TLC
MCAlgorithms          Algorithms and FaqSplitter on the inputs of a run
OrderServiceProofs, OrderDialogueProofs, ConversationTurnsProofs,
MessageNumbersProofs, ProductCacheProofs, ToolCallsProofs,
KnowledgeBaseProofs, AlgorithmsProofs                 theorems, one module per component
```

MC modules add symmetry, or the inputs of a run, and nothing else; the other runs
check a module as it is. Operators whose comment starts with *Mutant of* are altered
versions of the operator they name; no specification uses them. They document what
each property would catch: substituted for the original, they break it.

### OrderService

`tx[w]` is the transaction thread `w` is running: its `step`, what it has read
(`items`, `prices`), the row locks it holds (`held`) and those its current
statement still has to take (`todo`). Writes take effect in the commit step,
because nobody else sees them before: the rows they touch are locked by then. A
step is one lock acquired (`AcquireCartRow`, `AcquireRow`), the code between two
blocking statements (`LockProducts`, `Reserve`, `CheckPay`, `CheckCancel`,
`InsertDirect`), a commit, or an end without one.

| Code | Actions |
|---|---|
| `create` | `BeginCreate` (the join starts, prices are read), `AcquireCartRow`, `LockProducts`, `AcquireRow`, `Reserve` (check, UPDATE, INSERTs, start of the DELETE), `CommitCreate`; `CreateRejects` |
| `create_direct` | `BeginDirect`, `AcquireRow`, `InsertDirect`, `CommitDirect`; `DirectRejects` |
| `pay` | `BeginPay`, `AcquireRow`, `CheckPay`, `CommitPay`; `PayRejects` |
| `cancel` | `BeginCancel`, `AcquireRow`, `CheckCancel`, `AcquireRow` per item, `CommitCancel`; `CancelRejects` |
| `cancel_expired` and the loop of `main.py` | `WindowPasses`, `SweepScan`, `SweepNext`, then the actions of `cancel`; `Reject` goes on with the next row, any other exception drops the scan |
| `CartService` | `AddToCart`, `UpdateCart`, `RemoveFromCart`, `BeginEmptyCart`, `CommitEmptyCart` |
| `admin.py` | `UpdateProduct`, `ToggleProductStatus` |
| `get_conn`, PostgreSQL | `EndTx`, `Fail`, `ResolveDeadlock` |

Decisions:

* **Row locks.** `FOR UPDATE`, `UPDATE` and `DELETE` all take the same exclusive
  lock. A statement that waits re-reads a row in its latest version when it gets
  it; a row that was deleted meanwhile is skipped (`EndTx` removes dead rows from
  the others' `todo`).
* **Order of locks.** Cart rows are taken in product order, since the join has
  `ORDER BY product_id`; product rows of an `IN` list, and the rows of a DELETE,
  in any order.
* **Failures.** `Fail` ends any transaction at any point before its commit: a
  lost connection, a killed thread, a crash. A crash of the process is several
  of them and the end of the sweeper's scan.
* **Left out:** the cache invalidation (in `ProductCache`), `get_detail` after
  the commit (in `OrderDialogue`), addresses, names and texts, and foreign keys
  into tables that are never deleted from.
* **Bounds:** `OrderIds` bounds the orders; `IdLeft` keeps checkouts from
  starting when no id is left for them. `MaxQty` bounds a cart row.

### ShopLedger

Orders, stock and payments, changed by `Place`, `Pay`, `Cancel` and `Stocktake`,
each in one step. `OrderService` maps its own variables of the same names to it:
commits are ledger operations, every other step is a stutter.

### OrderDialogue

One conversation. `memory` is the checkpoint, `turn` the turn that is running,
`calls` the calls of `OrderService` in threads, `cart` the cart, which the page
edits (`EditCart`) at any time. `Supervise` is `supervisor_node` as a whole: the
resumption of a clarification, the merging of slots, the fallbacks for the order
number, the promotion of `finish`, the fate of the draft and the target.
`Clarify`, `PrepareSingle`, `PrepareCart`, `PrepareRefuses`, `CancelDraft`,
`CommitRefuses`, `StartOrder`, `ReportOrder` are the outcomes of the nodes;
`PlaceOrder` and `OrderFails` those of the thread.

* A message is what the language model and the regexes make of it: a route,
  slots, whether it contains an affirmative or negative word, an order number, a
  status word. All combinations of a run's set are allowed, because nothing
  constrains the model's answer.
* `order` stands for the routes `order` and `logistics`, which require the same
  slot; `faq` for those that require none.
* A call of `OrderService` is one step. That is what the refinement of
  `ShopLedger` licenses.
* A reply and the checkpoint of its node are two steps, in either order. `run_stream`
  yields the reply first (`Show`; LangGraph stores the node's update behind it,
  `StoreUpdate`), `arun` when the graph has returned (`Store`, then `SendReply`).
  `AnswerWith` is what the nodes do with their reply and their update. What a reply
  reports of a call counts as reported once the turn has run to its end (`EndTurn`).
* `Disconnect` cancels the turn and not its thread, between any two of these steps.
  Since checkpoints are written behind the graph, those of the turn may be lost with it
  (`Left`), but not once the graph has returned. `Crash` also rolls back what runs.
* Sub-agents only answer (`Reply`): their tools read.

### ConversationTurns and MessageNumbers

`ConversationTurns` has `asyncio.Lock` in full: a release wakes the first waiter
and leaves the lock free until that waiter runs (`woken`), which is the moment the
lock table may drop it. The tables of both modules are Python dicts: `table` gives the
lock of a key and `older` the order in which the keys were made, which decides what a
full table drops first (`Oldest`, `Dropped`). `torn` is history: the conversations
whose lock was dropped although somebody was about to take it. `Enter` is one step since
the event loop does not pause between `_lock` and the acquisition. `BreakOff` and
`Abandon` are clients that leave and turns that raise. A turn that is cancelled while a
thread is in `add_message` (`langgraph_agent.py:150-151`, `345-348`) frees its lock, and
the thread stores its message later (`late`, `LateStore`), within whatever turn is then
inside. `overrun` is history: the turns such a message has come between whose question
and answer.

`MessageNumbers` opens `add_message`: `Get` (the table, under its guard),
`Acquire`, `ReadLast` (max), `Insert` (and commit), `InsertFails`. It implements
`MessageLog`, in which a message is numbered and stored in one step, as
`ConversationTurns` has it: by the largest number stored or, in a conversation that is
torn, by any that is stored.

### ProductCache

One product stands for the namespace, and its row for the number of writes it has
seen. Readers hit or miss, fetch and fill; orders commit and then invalidate, or
die in between; the administrator writes and does not invalidate. `redisUp` and
`breaker` decide whether an operation reaches Redis. `settled` and `excused` are
history: the last version an order has committed and invalidated for, and whether
one of the accepted ways to become stale has happened.

A read that is answered of the cache remembers what had been promised when it was
(`since`), so that `StaleOnlyIfExcused` speaks of answers, not only of the entry.

### ShopServices and ToolCalls

`run[w]` is the call thread `w` is in and the statement (`at`) it is about to send;
`inUse` the connections the pool counts as taken. `query_one`, `query_all` and
`execute` each are `GetConn` (or `Exhausted`, which raises at once), a statement, and
`Return` or `Advance`, which commit and give the connection back. `StatementFails`
may end any statement: a lost connection, a constraint, an abort.

| Code | Actions |
|---|---|
| `UserService.register` | `CheckUser`, `InsertUser` (the UNIQUE constraint decides), `ReadUser` |
| `AfterSaleService.create` | `CheckOrder`, `InsertTicket`, `ReadTicket` |
| `delete_category`, `create_product` | `CountProducts`, `DeleteCategory` (the foreign key decides); `InsertProduct` |
| `run_react` | `AskForTools`, `Answer`, `GiveUp`, `NextRound`, `UnknownTool` |
| `_call_tool` | `CallTool` (queued), `TakeCall` and `ToolStep` (its thread), `Deliver`, `Timeout` |
| `close_pool` at the end of `lifespan` | `Shutdown` |

* `query_order` stands for the tools with two statements, `list_my_orders` for those
  with one; what they read is left out, whom they read for is not (`Injected`).
* An INSERT draws its id and its time when it is sent, not when it commits: two
  requests may commit in the other order, and `ReadTicket` reads what is committed.
* The time of a `Timeout` is any: nothing bounds how long a thread has waited in the
  executor's queue when its ten seconds are over.
* **Left out:** the observation's text, the window of messages, streamed events,
  `idle_in_transaction_session_timeout` (no code idles in a transaction).

### KnowledgeBase

`vectors` is Chroma; a chunk knows the indexing (`run`) it is of, which stands for the
text the file had then. `job[k]` is where console `k` is in `_index` of the first
document of `todo`: the two calls of `delete_by_doc_id`, `add`, the invalidation.
A console may be killed between any two (`StopConsole`) and start again; the server
restarts with a BM25 index of what is stored. `search[t]` is a search of the server:
`BeginSearch` (no kept answer), `Recall` once for each variant, `Fill`. A console's own
searches do to Redis what the server's do. `excused` and `contested` are history: which
kept answers have a reason to be old, which documents two consoles were at.

* An answer is, for each document, the text it came from: ranking decides among chunks
  of one text or of several, and any choice is allowed here (`Ranking` is about which).
* `invalidate` deletes in batches; a key stored in between is one stored late.

### The algorithms

`FaqSplitter`, `TextWindows`, `Ranking`, `ProductSearch` and `Logistics` are operators,
translated loop by loop. Where the code goes over a list, the model quantifies over its positions or
keeps some of them (`Ascending`, `Picked`); where it adds up, a recursive function runs
over the positions (`Total`, `Product`, and `out` of `QueryVariants`). Of the `while` loops
that of `_fallback_split` is an action, `CutWindow`, one round of it; `start` and the windows
so far are its state, and `ChunkWindows` says which of them give a chunk. Those over questions
and answers are `RECURSIVE` operators, which is why `FaqSplitter` stands apart; it shares
`Strip`, `CutBehind` and the marks with `TextWindows`.
`Algorithms` is a state machine whose one variable, `sample`, is an input that is put
together in steps: the pools of one variant after the other, a query character by
character, an index by additions and removals, a catalogue and a name, a shipment and two
looks at it, a text and its windows. Its constants are any sets of inputs; the theorems are about them, and
`MCAlgorithms` gives them values and adds the texts of questions and answers.

Texts are sequences of marks (a character, or a whole bold line); scores are integers in
units that make the weights 0.6, 0.4 and 1.1 integers; names are sequences of letters;
times are minutes. A fused score is a sum of fractions with the best of each list below:
`Fused` counts it in units of the product of their magnitudes (`Relative`), so that it
compares as the code's does, with the sign of each list's own best, rounding aside. `RowLimit` is the LIMIT 200 of `search_products`'s
statement and `MatchLimit` the number of products it returns.

## 3. What TLC checks

### Properties that hold

| Run | Instance | Properties |
|---|---|---|
| `order_core` | 1 customer, 1 product with 1 unit, quantities to 2, 2 prices, 2 orders, 2 threads and the sweeper; cart edits, cart and direct checkouts, `pay`, `cancel`, `update_product` | `CartIsOrdered`: what a checkout is about to order is what the cart holds; `DirectPriceCurrent`: the price charged is in force at the commit; `NoOversell`, uncommitted orders included; `OrdersKept`: what an order contains, whose it is and that it was paid or cancelled is never changed; `StockConserved`; the refinement `LedgerSpec`; `IInv`, with `LocksExclusive` and `PaidOnce` in it |
| `order_live` | 2 products, 2 orders, 1 thread and the sweeper; cart checkouts, `pay`, `toggle_product_status` | `TransactionsEnd`: deadlocks arise and end; `OverdueSettles` |
| `dialogue_drafts` | messages about ordering and changes of topic, 2 drafts, 3 calls, disconnections and crashes | `IInv`; `OrderedOnlyIfConfirmed`; `PendingIsLastAsked`; `ReportedDraftIsDone` |
| `turns_locked` | 4 turns, 2 conversations, a table of one lock; with and without a language model | `IInv`; `TurnsSerialised` and `AnswersPaired`, except where a lock was dropped with a turn in line, the latter also for turns a late message has come between; `EveryTurnServed`: if turns that are inside leave, a turn in line gets the lock or is given up |
| `numbers_kept` | 3 threads, 2 conversations, 3 messages each, a table of one mutex | `IInv`; `NumbersInOrder`, except where a mutex was dropped between its lookup and its acquisition; the refinement `LogSpec` |
| `cache_stale` | 2 readers, 2 orders, administrator, outages, 2 writes | `IInv`; `StaleOnlyIfExcused`, of the entry and of every answer; `EventuallyFresh` |
| `tools` | 1 turn of one round with up to 2 calls, 1 executor thread, 2 request threads, 2 requests, a pool of 2 | `IInv`; `ConnectionsAccounted`; `WelcomedOnce`; `ReceiptNotOlder`; `ProductsHaveCategory`; `OwnObservations`; `AbandonedNeverStarts`; `EveryTurnEnds` |
| `knowledge` | 2 consoles, 1 document of 2 chunks, 2 indexings, 1 search of 2 variants | `IInv`; `WholeTexts`; `StaleOnlyIfExcused`; `EventuallyCurrent` |
| `algorithms` | texts of up to 25 marks, 2 of them other than plain; 2 variants over 3 chunks of 2 sources, with negative scores too; queries of 6 characters; 4 changes of an index; 4 products of 5 names, 12 keywords, `RowLimit` 3, `MatchLimit` 2; 16 records, 5 overrides, 17 minutes | `IInv`, with `IndexConsistent` and `WindowsCover` in it; `TextsKept`, of questions and answers; `SearchRanks`, with `QueriesKept` in it; `NamesOrderRight`; `ShipmentsAdvance` |

`IInv` is, wherever it is named, the inductive invariant of the component's proofs; its first
conjunct is the type invariant.

**Why the bounds are enough.** An oversale takes two checkouts of one product, a
double payment two threads on one order; with the sweeper as a third there is also a
waiter behind a waiter. Stock of 1 is the boundary the checks are about. A wait cycle
needs two products, which are in `order_live`. That customers and products cannot
interfere otherwise, and that two uncommitted orders never get one id (with one product
its lock keeps them apart), is what the proofs show for any number of them. Two drafts
are what a replaced draft needs, three calls an order, its repetition after a checkpoint
was lost, and one after the report. The eviction race needs
four turns of two conversations and a table of one lock, named by the order in which the
turns come (`StartedInOrder`), since no definition tells one from another; that nothing else happens with
1024, or with 2048 mutexes, the proofs show, which are about tables of any size. In the
cache, a stale fill needs one reader and one write; the other reader sees it, the other
order shows that a later invalidation repairs it. In
`tools`, one executor thread is the crowded executor: with two calls one queues behind
a hung one; two connections and three threads exhaust the pool; two requests make every
pair of services meet between their statements. In `knowledge`, two indexings are an
old and a new text, two chunks a text that could be half there, and two consoles meet at
one document; that each document is its own is seen from `Scope` and `Of`, which never
mix two. The texts of `algorithms` are longer than two windows of 10 with an overlap of
3, and two marks are what a cut in the wrong place needs: one that is found and one that
is not. Of the other algorithms the run shows the boundaries (one row more than `RowLimit`,
a best score of zero and below it, a query with a word too many); any number of products,
variants, chunks and characters is what the proofs are about. Deadlock is not checked
where the bounded instance runs out of ids, drafts, turns or requests.

### Where the code and its documentation part

Each is a run TLC finds violated, and a finding in `PROJECT.json` with the quoted
line.

| Run | Property | What happens |
|---|---|---|
| `dialogue_cart_race` | `ConfirmedIsOrdered` | the cart changes between its comparison with the draft (`master_graph.py:567`) and the checkout, and is ordered unseen |
| `tool_timeout` | `StuckThreadsReturn` | the pool is opened without the `statement_timeout` that `CONN_OPTIONS` spells out and `react.py:106` relies on: a hung statement keeps thread and connection |
| `bm25_sync` | `Bm25InSync` | indexing a document anew leaves its old chunks in the BM25 index, whose `remove` nobody calls |

The passing properties next to them say how much is left:

* `OrderedOnlyIfConfirmed` holds where `ConfirmedIsOrdered` fails: a draft was
  pending before the message that confirms it came, but the cart may not be what it was.
  That the customer has seen the draft is more than it says: the answer of `arun` may be
  lost when the checkpoint with the draft is stored.
* `ReportedDraftIsDone` speaks of drafts whose reporting turn ran to its end. A turn that
  breaks off while its order is placed leaves the draft in the checkpoint; so may a stream
  that breaks off when the report was shown and the commit node's update is not yet
  stored (`langgraph_agent.py:320`). Then a second confirmation orders the draft again;
  nothing in the repository promises otherwise.
* `EveryTurnEnds` holds where `StuckThreadsReturn` fails: the customer's turn ends, and
  the thread does not.
* `TurnsSerialised` leaves out the conversations that are `torn`. `_lock` drops a lock
  whose next owner is woken and has not run (`langgraph_agent.py:103`), and then a second
  turn of the conversation is inside, although line 98 says 同一会话串行化.
* `AnswersPaired` says what is left of the claim that the lock covers the pair of question
  and answer (`langgraph_agent.py:337`, `README.md:474`). A turn that is cancelled while a thread stores
  its message frees the lock, and the message may come between the question and the answer of
  the next turn, which then gets the wrong number; the property excuses just those turns
  (`overrun`), and conversations whose turns are not serialised. That questions have different
  numbers it asks always. Without a language model
  (`_fallback_response`) no lock is taken and answers may get the number of another
  request's question, although README.md:474 wants pairs written under the lock.
* `NumbersInOrder` excludes the same fault of `KeyedLocks` by name (`torn`).
* `StaleOnlyIfExcused` of `ProductCache` names every way to become stale. One of them is
  a read that is overtaken by an order and stores its row after the invalidation
  (`product/service.py:133`), although line 6 says that callers never see a stale stock;
  `EventuallyFresh` bounds them all. The property of that name in `KnowledgeBase` and
  `EventuallyCurrent` do the same for answers about documents.

Other places met while modelling, which the models have and no run is spent on:

* With a draft pending, a question about something else that contains an affirmative
  substring (可以查一下物流吗) confirms it (`master_graph.py:248`; `README.md:373` says a
  change of topic drops the draft).
* With a ticket number among the slots, the order number that was asked for is not taken
  (`master_graph.py:206`; `README.md:308`).
* `LOGISTICS_STAGE_MINUTES` moves the stages but not the dates of their nodes, which
  follow the defaults (`logistics/service.py:83-85`): with faster thresholds a parcel is
  delivered at a time still to come. `ShipmentsAdvance` checks the dates for the others.
* `match_products` promises that a name containing the keyword goes before one that only
  covers its characters; with full coverage the shorter name goes first either way.
* A sentence that ends exactly at `max_len` is not taken as a cut (`splitter.py:66`), and
  the piece is cut at a comma or a blank instead.
* `fuse_results` divides by the best score of a list (`retriever.py:279`) and promises
  scores in [0, 1]. Where all scores of a list are negative, that turns the list around:
  its worst chunk counts most. `SearchRanks` puts consensus first where each variant that
  recalls something has a positive score among what it recalls (`Comparable`); that
  sources are distinct it says of all.

### Fairness

* **`RunFairness`.** Threads are scheduled: weak fairness of the code between
  statements. PostgreSQL serves the waiters of a row lock in a queue, so a waiter is
  not passed by for ever: strong fairness of `Acquire`. Its deadlock detector looks
  after a second and aborts one of the cycle: weak fairness of `ResolveDeadlock`.
  Nothing is assumed of requests.
* **`SweepFairness`.** The loop of `main.py` catches every exception and sleeps a
  minute, so it scans again and again. That sweeps are not cut short for ever is an
  assumption about the infrastructure, `<>[][~Fail(Sweeper)]_vars`. It covers
  deadlocks too, since an abort has the same effect as a failure: the code does not
  exclude that the sweeper is the victim each time, and `OverdueSettles` is claimed
  under the assumption that it is not.
* **`ConversationTurns!FairSpec`.** The event loop runs a waiter that was woken. Of a turn
  that is inside nothing is assumed: model and tool calls have timeouts, but `commit_node`
  and `add_message` wait for threads without one, and no `statement_timeout` is set
  (`tool_timeout`). So that turns leave is the premise of `EveryTurnServed`. Nobody is
  assumed to give up.
* **`ToolCalls!Fairness`.** The event loop runs the turn and its timer, the model's reply
  ends, and the executor's free threads take calls. Of a statement that has been sent
  nothing is assumed: only the `statement_timeout` of `ConnectionOptions` would justify
  it, and it is not there. `EveryTurnEnds` holds all the same.
* **`KnowledgeBase!Fairness`.** A search and an indexing that have begun go on, and Redis
  drops an answer when its time is up. Starts, restarts and kills need not happen.
* **`ProductCache!FairSpec`.** Redis drops a key when its time is up. Readers,
  writers and the breaker need no fairness.

## 4. What is proved

Every theorem holds for any values of the constants: any number of customers, products,
orders, threads, turns, conversations, documents, consoles, variants and chunks, any table
sizes and pool capacities, queries and names of any length, with the named `ASSUME`s of the
component and nothing else. These say that kinds of things differ (a thread of the sweeper
is no client, no lock is not a lock, no time is no number), that sizes are positive, that
ids and scores are integers, that a catalogue and what a variant recalls are finite. TLC
evaluates them in every run.

| Component | Theorems (statement after `Spec =>`) |
|---|---|
| `OrderServiceProofs` | `Invariance` (`[]IInv`), `TypeCorrect` (`[]TypeOK`), `LocksAreExclusive` (`[]LocksExclusive`), `NoDoubleCheckout` (`[]CartIsOrdered`), `NeverOversold` (`[]NoOversell`), `PaidExactlyOnce` (`[]PaidOnce`), `DirectPricesCurrent` (`[]DirectPriceCurrent`), `QuantitiesBounded` (`[]AmountsBounded`), `StockIsConserved` (`StockConserved`), `KeepsOrders` (`OrdersKept`), `Refinement` (`LedgerSpec`) |
| `OrderDialogueProofs` | `Invariance`, `TypeCorrect`, `NeverUnconfirmed` (`[]OrderedOnlyIfConfirmed`), `AsksOneThing` (`[]PendingIsLastAsked`), `OneOrderForAReport` (`ReportedDraftIsDone`) |
| `ConversationTurnsProofs` | `Invariance`, `TypeCorrect`, `SerialisesTurns` (`[]TurnsSerialised`), `PairsAnswers` (`[]AnswersPaired`) |
| `MessageNumbersProofs` | `Invariance`, `TypeCorrect`, `NumbersAreInOrder` (`[]NumbersInOrder`), `Refinement` (`LogSpec`) |
| `ProductCacheProofs` | `Invariance`, `TypeCorrect`, `StalenessExcused` (`[]StaleOnlyIfExcused`) |
| `ToolCallsProofs`, also of `ShopServices` | `Invariance`, `TypeCorrect`, `AccountsForConnections` (`[]ConnectionsAccounted`), `WelcomesOnce` (`[]WelcomedOnce`), `ShowsRecentReceipt` (`[]ReceiptNotOlder`), `KeepsCategories` (`[]ProductsHaveCategory`), `SeesOwnObservations` (`[]OwnObservations`), `NeverStartsAbandoned` (`AbandonedNeverStarts`) |
| `KnowledgeBaseProofs` | `Invariance`, `TypeCorrect`, `KeepsWholeTexts` (`[]WholeTexts`), `StalenessExcused` (`[]StaleOnlyIfExcused`) |
| `AlgorithmsProofs` | `Invariance` (`IndexConsistent` and `WindowsCover` in it), `QueryFirst` (`[]QueriesKept`), `ConsensusFirst` (`[]SearchRanks`), `NamesRight` (`[]NamesOrderRight`), `ShipmentsOnlyAdvance` (`[]ShipmentsAdvance`) |

The stateful components follow one plan. Hardly any safety property is inductive; each
component has an inductive invariant `IInv`, stated next to its properties and checked by
TLC in the component's run. One lemma per action, or group of actions with one effect, shows that
the step keeps it; `NextIInv` joins them; the theorems follow from `IInv` at every
state, or at both ends of a step.

**Order transactions.** `NoOversell` says nothing of why the stock is still there when
an order commits. What carries it from the check to the commit is that the product rows
are held in between, and that nobody writes a row another holds. `IInv` says so for each
kind of row: `CartHeld` (a checkout's basket is in cart rows it holds and equals them),
`StockHeld` (what an uncommitted order takes is in product rows it holds, and not more
than the stock), `OrderHeld` (an order being paid or cancelled is held and pending, and
what will be restocked is what it contains); `FreshIds` (an uncommitted order's id is
nobody else's), `BasketFull` (no order is empty, which the ledger demands),
`UsersKnown`, `LocksExclusive`, `TypeOK` and `PaidOnce` complete it. `Refinement` needs
it too: `StepRefines` shows that a commit is the ledger operation it should be.
`DirectPriceCurrent` is the same argument for prices (`InsertKept`: who has read a price
keeps its row; `PriceHeld`: nobody else writes it).

`StockConserved` counts units: placing an order adds a set of units disjoint from those of
the others, because its id is fresh; cancelling takes away exactly that set, because what
is restocked is what the order contains and it is pending. The
counting needs `AmountsBounded`: quantities are in the range the units are drawn from, and
finitely many orders are placed; it is inductive together with `IInv`. Its upper bound is
the model's `MaxQty`; the code has none.

`OrdersKept` is what a customer may rely on in every step: the order stays, with its
content and its owner, and once paid or cancelled it stays so. Every step is a step of the
ledger or a stutter, and the ledger changes the status of a pending order only; by
`PaidOnce`, before and after the step, payment and shipment follow from the status.

**Dialogue.** `Sound` is what is true of every checkpoint, the latest one, the one before the
turn, to which a crash or a lost write may return, and the one that is yet to be stored
behind a reply that was shown (`Underway`): not both a draft and a
clarification, no draft without an address, and none whose outcome was reported.
`Underway` also says that the update behind a reply fits it, and that the one behind a report
has no draft; with that, ending the turn reports a draft that is gone.
`Routed` is what each node relies on when the turn gets there: commit only with the
draft of an earlier turn and a message that says yes and not no.

**Turns.** In a conversation that is not torn everybody waits for, or holds, the lock that
is in the table (`SameLock`); a lock is held by one turn (`HeldByOne`); a line has every waiting
turn once (`InLine`, `LinesOfWaiting`); only the first of a free lock's line is woken
(`WokenIsFirst`). Then two turns inside would hold one lock. `QuestionStored`
carries a turn's question to its answer: it is stored, and the latest one unless a
question stored late has overrun the turn. `LatestIsAsked` says that the largest number
stored is a question's, which an answer stored late relies on too: it gets that number, its
own question is stored (`LateIsAnswer`), and either no later question is, or its
turn is overrun.

**Message numbers.** The same for mutexes (`SameMutex`, `HoldersOwn`); `LastIsCurrent`
says that between SELECT and INSERT nobody stores, and `Ascending` that the largest number
is the last; `LastStored` that a number a call has read is still there, torn or not.
Hence `Refinement`: an INSERT numbers its message by the largest number stored, or by one
that is stored, and every other step stores nothing. That the maximum of the stored numbers
exists needs a bound on them, `NumbersBounded`, since `MessageNumbers` takes it from a set
of any size.

**Cache.** A read that has fetched has a row not older than what it was promised when it
began; with `StaleOnlyIfExcused` itself that is inductive.

**Tools and services.** `CallsAtStatement`: a thread's call is at one of its statements.
`InsertedOnce`: of the registrations of an address only one is past its INSERT.
`TicketsDrawn`: what a request shows was stored. `RequestsCounted`: tickets and
products stay within the requests served. On the side of the turns, `QueuedAwaited` (a call
that queues is the one its turn waits for, and queues once) and `RunningMade` (a call a
thread runs was made by its turn, and if the turn still waits for it nothing of the turn
queues) are why a late result is never taken for another's.

**Knowledge base.** `DocumentHeld`: a console that is alone at a document stays so until it
leaves it or the document is contested; what it deletes is then all there is, and nothing
is there until it adds. `SearchesCurrent`: a search that was not overtaken has recalled
what is in Chroma now.

**Algorithms.** `IInv` says of an input that is being put together what it is made of, that
an index is consistent (`IndexConsistent`), which `add` and `remove` keep, and that the
windows of a text cover it up to where the next one starts (`WindowsCover`), which a round of
the loop keeps; the rest is about what is computed of an input that is complete.

* `WindowsCover`: `CutBehind` returns a place behind the start of the window and not behind
  its end (`CutWithin`, `WindowEnds`), so that windows advance and fit; the next one starts
  inside or at the end of this one (`NextFollows`), whatever the overlap, also one of
  `chunk_size` or more; `CoveredStep` adds a window. What can be seen at a position is in
  the first window that ends there or later, which is then not blank and gives a chunk
  (`CoveredKept`).
* *No induction.* What a recursive function computes up to `n` is shown by a least
  counterexample (`LeastExists`, `UpTo`): if it failed, it would fail at a first position.
  `Partial` gives what such a definition means; `Totals` and `Products` apply it to sums and
  products, `Collected` to the variants.
* *Positions in order.* `AscendingOrder` says that `Ascending` lists a finite set of
  numbers without gaps, each larger than the one before; what filters keep, and in which
  order, follows.
* `ConsensusFirst`: the share of a list in a fused score, times the scale of that list, is
  its score times one and the same product, whatever the list. So a chunk that dominates
  another one has the larger sum; a chunk that is the best of one list has that product
  from this list alone and something from another one, where a chunk that one list
  recalled has at most the product. A sort puts larger sums first, however it breaks ties,
  and of a source its first chunk is kept.
* `QueryFirst`: a text that is tidy is not changed by another pass (`TidyTwice`), so that
  the query is collected as it is, and first (`WorthFirst`). All parts are made of the
  query's characters and blanks (`AskedTexts`): if those are idle, so are the parts; if the
  query is one character, there are no parts (`PartsNotWorth`).
* `NamesRight`: ranks are positions in a finite strict order (`Before`), so what is returned
  first is not behind anything that is a candidate.
* `ShipmentsOnlyAdvance`: what was reached at a time is reached later, since the minutes
  of the stages ascend or are replaced by the defaults, which do.

**Only model-checked.**

* Liveness under fairness and `ENABLED` are out of the prover's reach: `TransactionsEnd`,
  `OverdueSettles`, `EveryTurnServed`, `EventuallyFresh`, `EveryTurnEnds`,
  `EventuallyCurrent`.
* `TextsKept`: questions and answers are cut by loops over what is left of a text, `RECURSIVE`
  operators, which the provers do not take.
* The three disagreements, of course: they are counterexamples.

## 5. What is not modelled

* The language model, prompts, tracing and usage counters: text, or answers
  nothing constrains.
* HTTP routes, tokens and middleware: no state of their own.
* Reads of the page: `list_orders`, `get_detail`, histories, listings. They change
  nothing.
* `create_category` and `update_category`: one statement each, on rows nothing else
  depends on.
* Creating, listing and closing conversations: one statement each, and no turn depends
  on whether its conversation is closed.
* Embeddings, tokens and the cleaning of a query: text in, numbers out.
* The second recall of a query about the warranty of a product (`retriever.py:351-356`), of
  chunks without a product code. `Scope` has the product's chunks only; with the second
  recall a search reads Chroma twice for a variant, as one of two variants does.
* Several replicas of the process. The locks of `langgraph_agent.py` and
  `utils/conversation.py` are per process, as the comment of `KeyedLocks` says.
* Scripts, tests and the web page.

## 6. What is left

* A proof about the cutting of questions and answers needs its loops written as actions, as
  that of `_fallback_split` is, or as functions of the position, with the bound on the rounds
  that the code leaves to the shrinking rest.
* That a failed call of `OrderService` changes nothing, which `OrderDialogue` relies on, is
  the stuttering in `Refinement` of `ShopLedger`; it is not a theorem of the dialogue, whose
  module does not know of the transactions.
* A floating-point model of the scores: the sums of `fuse_results` are rounded, and two
  chunks whose sums differ by less than the rounding may change places.
* Six hazards in `PROJECT.json` have no property, each with its reason in its note.
