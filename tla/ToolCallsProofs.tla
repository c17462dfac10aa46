--------------------------- MODULE ToolCallsProofs ---------------------------
(***************************************************************************)
(* Proofs about ShopServices and ToolCalls for any threads, turns and      *)
(* requests, and any capacity of the pool.                                 *)
(***************************************************************************)
EXTENDS ToolCalls, FiniteSetTheorems, SequenceTheorems, WellFoundedInduction, TLAPS

\* A set of numbers with a bound has a largest element.
LEMMA LargestExists ==
  ASSUME NEW S \in SUBSET Nat, S # {}, NEW b \in Nat, \A m \in S : m <= b
  PROVE  \E n \in S : \A m \in S : m <= n
  <1> DEFINE gaps == {b - m : m \in S}
  <1>1. gaps # {} /\ gaps \in SUBSET Nat
    <2>1. \A m \in S : b - m \in Nat
      OBVIOUS
    <2> QED
      BY <2>1
  <1>2. PICK g \in gaps : \A h \in gaps : ~(<<h, g>> \in OpToRel(<, Nat))
    BY <1>1, NatLessThanWellFounded, WFMin
  <1>3. PICK n \in S : \A m \in S : ~(b - m < b - n)
    BY <1>1, <1>2 DEF OpToRel
  <1> QED
    BY <1>3

\* A sequence without its i-th element: those before it stay where they are,
\* those after it move up by one.
LEMMA CutOut ==
  ASSUME NEW S, NEW s \in Seq(S), NEW i \in 1..Len(s)
  PROVE  LET cut == SubSeq(s, 1, i - 1) \o SubSeq(s, i + 1, Len(s))
         IN  /\ cut \in Seq(S)
             /\ Len(cut) = Len(s) - 1
             /\ \A j \in 1..(Len(s) - 1) : cut[j] = IF j < i THEN s[j] ELSE s[j + 1]
  <1> DEFINE front == SubSeq(s, 1, i - 1)
             back  == SubSeq(s, i + 1, Len(s))
  <1>1. /\ front \in Seq(S) /\ Len(front) = i - 1 /\ \A j \in 1..(i - 1) : front[j] = s[j]
        /\ back \in Seq(S) /\ Len(back) = Len(s) - i
        /\ \A j \in 1..(Len(s) - i) : back[j] = s[i + j]
    BY LenProperties, SubSeqProperties
  <1> HIDE DEF front, back
  <1>2. front \o back \in Seq(S) /\ Len(front \o back) = Len(s) - 1
    BY <1>1, LenProperties, ConcatProperties
  <1>3. ASSUME NEW j \in 1..(Len(s) - 1)
        PROVE  (front \o back)[j] = IF j < i THEN s[j] ELSE s[j + 1]
    <2>1. (front \o back)[j] = IF j < i THEN front[j] ELSE back[j - (i - 1)]
      BY <1>1, LenProperties, ConcatProperties
    <2>2. ~(j < i) => j - (i - 1) \in 1..(Len(s) - i) /\ i + (j - (i - 1)) = j + 1
      BY LenProperties
    <2> QED
      BY <1>1, <2>1, <2>2, LenProperties
  <1> QED
    BY <1>2, <1>3 DEF front, back

\* The parts of ServicesIInv: the calls with their connections, and the tables.
CallsInv ==
    /\ run \in [Threads -> Run]
    /\ inUse \subseteq Threads
    /\ CallsAtStatement
    /\ IsFiniteSet(inUse) /\ ConnectionsAccounted

Registrations == users \subseteq Emails /\ welcomed \in [Emails -> Nat] /\ InsertedOnce /\ WelcomedOnce
Tickets ==
    /\ tickets \subseteq 1..MaxRequests
    /\ receipts \subseteq (1..MaxRequests) \X (1..MaxRequests)
    /\ TicketsDrawn /\ ReceiptNotOlder
Counts ==
    /\ requests \in 0..MaxRequests
    /\ nextTicket \in 1..MaxRequests + 1
    /\ products \in [Categories -> 0..MaxRequests]
    /\ RequestsCounted
CategoriesKept == category \subseteq Categories /\ ProductsHaveCategory
TablesInv == Registrations /\ Tickets /\ Counts /\ CategoriesKept

LEMMA ServicesParts == ServicesIInv <=> CallsInv /\ TablesInv /\ serving \in BOOLEAN
  BY DEF ServicesIInv, ServicesTypeOK, CallsInv, TablesInv, Registrations, Tickets, Counts, CategoriesKept

-----------------------------------------------------------------------------
(* Calls and statements *)

LEMMA Scripts ==
  /\ Len(Script["register"]) = 3 /\ Len(Script["create_after_sale"]) = 3
  /\ Len(Script["delete_category"]) = 2 /\ Len(Script["create_product"]) = 1
  /\ Len(Script["query_order"]) = 2 /\ Len(Script["list_my_orders"]) = 1
  BY DEF Script

\* Which call sends a statement, and where.
LEMMA StatementAt ==
  ASSUME CallsInv, NEW w \in Threads, run[w].call # "none"
  PROVE  /\ run[w].at \in 1..3 /\ run[w].call \in Calls
         /\ Statement(w) = "user?" => run[w].call = "register" /\ run[w].at = 1
         /\ Statement(w) = "user+" => run[w].call = "register" /\ run[w].at = 2
         /\ Statement(w) = "user" => run[w].call = "register" /\ run[w].at = 3
         /\ Statement(w) = "order?" => run[w].call = "create_after_sale" /\ run[w].at = 1
         /\ Statement(w) = "ticket+" <=> run[w].call = "create_after_sale" /\ run[w].at = 2
         /\ Statement(w) = "ticket" => run[w].call = "create_after_sale" /\ run[w].at = 3
         /\ Statement(w) = "products?" => run[w].call = "delete_category" /\ run[w].at = 1
         /\ Statement(w) = "category-" => run[w].call = "delete_category" /\ run[w].at = 2
         /\ Statement(w) = "product+" => run[w].call = "create_product" /\ run[w].at = 1
  <1>1. run[w].call \in Calls
    BY DEF CallsInv, Run
  <1>2. run[w].at \in 1..Len(Script[run[w].call])
    BY DEF CallsInv, CallsAtStatement
  <1>3. CASE run[w].call = "register"
    <2>1. run[w].at \in {1, 2, 3}
      BY <1>2, <1>3, Scripts
    <2> QED
      BY <1>1, <1>3, <2>1 DEF Statement, Script
  <1>4. CASE run[w].call = "create_after_sale"
    <2>1. run[w].at \in {1, 2, 3}
      BY <1>2, <1>4, Scripts
    <2> QED
      BY <1>1, <1>4, <2>1 DEF Statement, Script
  <1>5. CASE run[w].call = "delete_category"
    <2>1. run[w].at \in {1, 2}
      BY <1>2, <1>5, Scripts
    <2> QED
      BY <1>1, <1>5, <2>1 DEF Statement, Script
  <1>6. CASE run[w].call = "create_product"
    <2>1. run[w].at = 1
      BY <1>2, <1>6, Scripts
    <2> QED
      BY <1>1, <1>6, <2>1 DEF Statement, Script
  <1>7. CASE run[w].call = "query_order"
    <2>1. run[w].at \in {1, 2}
      BY <1>2, <1>7, Scripts
    <2> QED
      BY <1>1, <1>7, <2>1 DEF Statement, Script
  <1>8. CASE run[w].call = "list_my_orders"
    <2>1. run[w].at = 1
      BY <1>2, <1>8, Scripts
    <2> QED
      BY <1>1, <1>8, <2>1 DEF Statement, Script
  <1> QED
    BY <1>1, <1>3, <1>4, <1>5, <1>6, <1>7, <1>8 DEF Calls, ServiceCalls, Tools

-----------------------------------------------------------------------------
(* Connections *)

\* Counting with one element more or less.
LEMMA PutIn ==
  ASSUME NEW S, IsFiniteSet(S), NEW x
  PROVE  /\ IsFiniteSet(S \union {x})
         /\ Cardinality(S) \in Nat /\ Cardinality(S \union {x}) \in Nat
         /\ Cardinality(S \union {x}) <= Cardinality(S) + 1
  <1>1. Cardinality(S) \in Nat
    BY FS_CardinalityType
  <1>2. /\ IsFiniteSet(S \union {x})
        /\ Cardinality(S \union {x}) = IF x \in S THEN Cardinality(S) ELSE Cardinality(S) + 1
    BY FS_AddElement
  <1> QED
    BY <1>1, <1>2

LEMMA TakeOut ==
  ASSUME NEW S, IsFiniteSet(S), NEW x
  PROVE  /\ IsFiniteSet(S \ {x})
         /\ Cardinality(S) \in Nat /\ Cardinality(S \ {x}) \in Nat
         /\ Cardinality(S \ {x}) <= Cardinality(S)
         /\ x \in S => Cardinality(S \ {x}) + 1 = Cardinality(S)
  <1>1. Cardinality(S) \in Nat
    BY FS_CardinalityType
  <1>2. /\ IsFiniteSet(S \ {x})
        /\ Cardinality(S \ {x}) = IF x \in S THEN Cardinality(S) - 1 ELSE Cardinality(S)
    BY FS_RemoveElement
  <1>3. Cardinality(S \ {x}) \in Nat
    BY <1>2, FS_CardinalityType
  <1> QED
    BY <1>1, <1>2, <1>3

\* The call of a thread after a step.
Advanced(r) == [r EXCEPT !.at = @ + 1, !.conn = "none"]
Connected(r, n) == [r EXCEPT !.conn = "used", !.ticket = n]
Closed(r) == [r EXCEPT !.conn = "closed"]

LEMMA AdvancedRun ==
  ASSUME NEW r \in Run, r.at + 1 \in 0..3
  PROVE  /\ Advanced(r) \in Run
         /\ Advanced(r).call = r.call /\ Advanced(r).about = r.about
         /\ Advanced(r).at = r.at + 1 /\ Advanced(r).conn = "none" /\ Advanced(r).ticket = r.ticket
  BY DEF Run, Advanced

LEMMA ConnectedRun ==
  ASSUME NEW r \in Run, NEW n \in 0..MaxRequests
  PROVE  /\ Connected(r, n) \in Run
         /\ Connected(r, n).call = r.call /\ Connected(r, n).about = r.about
         /\ Connected(r, n).at = r.at /\ Connected(r, n).conn = "used" /\ Connected(r, n).ticket = n
  BY DEF Run, Connected

LEMMA ClosedRun ==
  ASSUME NEW r \in Run
  PROVE  /\ Closed(r) \in Run
         /\ Closed(r).call = r.call /\ Closed(r).about = r.about
         /\ Closed(r).at = r.at /\ Closed(r).conn = "closed" /\ Closed(r).ticket = r.ticket
  BY DEF Run, Closed

LEMMA IdleIsRun == Idle \in Run
  <1>1. 0 \in 0..3 /\ 0 \in 0..MaxRequests
    BY BoundsAssumption
  <1> QED
    BY <1>1 DEF Idle, Run

\* A call ends and its connection, if it has one, is back in the pool.
LEMMA CallsEnd ==
  ASSUME CallsInv, NEW w \in Threads, run' = [run EXCEPT ![w] = Idle], inUse' = inUse \ {w}
  PROVE  CallsInv'
  <1>1. /\ run' \in [Threads -> Run] /\ run'[w] = Idle
        /\ \A u \in Threads \ {w} : run'[u] = run[u]
    BY IdleIsRun DEF CallsInv
  <1>2. CallsAtStatement'
    BY <1>1 DEF CallsInv, CallsAtStatement, Idle, Tools, ServiceCalls
  <1>3. /\ IsFiniteSet(inUse') /\ Cardinality(inUse') <= Cardinality(inUse)
        /\ Cardinality(inUse') \in Nat /\ Cardinality(inUse) \in Nat
    BY TakeOut DEF CallsInv
  <1>4. Cardinality(inUse') <= MaxConn
    BY <1>3, BoundsAssumption DEF CallsInv, ConnectionsAccounted
  <1>5. inUse' = {u \in Threads : run'[u].conn = "used"}
    BY <1>1 DEF CallsInv, ConnectionsAccounted, Idle
  <1>6. Threads' = Threads
    BY DEF Threads
  <1> QED
    BY <1>1, <1>2, <1>3, <1>4, <1>5, <1>6 DEF CallsInv, ConnectionsAccounted

\* A call goes on with its next statement.
LEMMA CallsAdvance ==
  ASSUME CallsInv, NEW w \in Threads, run[w].call # "none",
         run' = [run EXCEPT ![w] = Advanced(run[w])], inUse' = inUse \ {w},
         run[w].at < Len(Script[run[w].call])
  PROVE  /\ CallsInv'
         /\ run'[w].call = run[w].call /\ run'[w].about = run[w].about
         /\ run'[w].at = run[w].at + 1 /\ run'[w].conn = "none" /\ run'[w].ticket = run[w].ticket
  <1>0. /\ run[w] \in Run /\ run[w].at \in 1..3 /\ run[w].at + 1 \in 1..Len(Script[run[w].call])
        /\ run[w].at + 1 \in 0..3
    <2>1. run[w] \in Run /\ run[w].at \in 1..3 /\ run[w].call \in Calls
      BY StatementAt DEF CallsInv
    <2>2. Len(Script[run[w].call]) \in 1..3
      BY <2>1, Scripts DEF Calls, ServiceCalls, Tools
    <2> DEFINE n == Len(Script[run[w].call])
    <2>3. n \in 1..3 /\ run[w].at < n
      BY <2>2
    <2> HIDE DEF n
    <2>4. run[w].at + 1 \in 1..n /\ run[w].at + 1 \in 0..3
      BY <2>1, <2>3
    <2> QED
      BY <2>1, <2>4 DEF n
  <1>1. run'[w] = Advanced(run[w]) /\ \A u \in Threads \ {w} : run'[u] = run[u]
    BY DEF CallsInv
  <1>2. /\ run'[w] \in Run
        /\ run'[w].call = run[w].call /\ run'[w].about = run[w].about
        /\ run'[w].at = run[w].at + 1 /\ run'[w].conn = "none" /\ run'[w].ticket = run[w].ticket
    BY <1>0, <1>1, AdvancedRun
  <1>3. run' \in [Threads -> Run]
    BY <1>1, <1>2 DEF CallsInv
  <1>4. CallsAtStatement'
    BY <1>0, <1>1, <1>2 DEF CallsInv, CallsAtStatement
  <1>5. /\ IsFiniteSet(inUse') /\ Cardinality(inUse') <= Cardinality(inUse)
        /\ Cardinality(inUse') \in Nat /\ Cardinality(inUse) \in Nat
    BY <1>1, TakeOut DEF CallsInv
  <1>6. Cardinality(inUse') <= MaxConn
    BY <1>5, BoundsAssumption DEF CallsInv, ConnectionsAccounted
  <1>7. inUse' = {u \in Threads : run'[u].conn = "used"}
    BY <1>1, <1>2 DEF CallsInv, ConnectionsAccounted
  <1>8. Threads' = Threads
    BY DEF Threads
  <1> QED
    BY <1>1, <1>2, <1>3, <1>4, <1>5, <1>6, <1>7, <1>8 DEF CallsInv, ConnectionsAccounted

\* A call takes a connection.
LEMMA CallsConnect ==
  ASSUME CallsInv, NEW w \in Threads, run[w].call # "none", Room,
         NEW n \in 0..MaxRequests,
         run' = [run EXCEPT ![w] = Connected(run[w], n)], inUse' = inUse \union {w}
  PROVE  /\ CallsInv'
         /\ run'[w].call = run[w].call /\ run'[w].about = run[w].about
         /\ run'[w].at = run[w].at /\ run'[w].conn = "used" /\ run'[w].ticket = n
  <1>1. /\ run'[w] = Connected(run[w], n)
        /\ \A u \in Threads \ {w} : run'[u] = run[u]
        /\ run[w] \in Run
    BY DEF CallsInv
  <1>2. /\ run'[w] \in Run
        /\ run'[w].call = run[w].call /\ run'[w].about = run[w].about
        /\ run'[w].at = run[w].at /\ run'[w].conn = "used" /\ run'[w].ticket = n
    BY <1>1, ConnectedRun
  <1>3. run' \in [Threads -> Run]
    BY <1>1, <1>2 DEF CallsInv
  <1>4. CallsAtStatement'
    BY <1>1, <1>2 DEF CallsInv, CallsAtStatement
  <1>5. /\ IsFiniteSet(inUse') /\ Cardinality(inUse') <= Cardinality(inUse) + 1
        /\ Cardinality(inUse') \in Nat /\ Cardinality(inUse) \in Nat
    BY PutIn DEF CallsInv
  <1>6. Cardinality(inUse') <= MaxConn
    BY <1>5, BoundsAssumption DEF CallsInv, ConnectionsAccounted, Room
  <1>7. inUse' = {u \in Threads : run'[u].conn = "used"}
    BY <1>1, <1>2 DEF CallsInv, ConnectionsAccounted
  <1>8. Threads' = Threads
    BY DEF Threads
  <1> QED
    BY <1>1, <1>2, <1>3, <1>4, <1>5, <1>6, <1>7, <1>8 DEF CallsInv, ConnectionsAccounted

\* A call begins.
LEMMA CallsStart ==
  ASSUME CallsInv, NEW w \in Threads, NEW call \in Calls,
         NEW about \in Emails \union Categories \union {0}, Start(w, call, about), UNCHANGED inUse,
         call = "register" => about \in Emails,
         call \in {"delete_category", "create_product"} => about \in Categories,
         w \in Handlers => call \notin Tools, w \in ToolThreads => call \notin ServiceCalls
  PROVE  /\ CallsInv'
         /\ run'[w] = [call |-> call, at |-> 1, conn |-> "none", about |-> about, ticket |-> 0]
         /\ \A u \in Threads \ {w} : run'[u] = run[u]
  <1>1. /\ run'[w] = [call |-> call, at |-> 1, conn |-> "none", about |-> about, ticket |-> 0]
        /\ \A u \in Threads \ {w} : run'[u] = run[u]
        /\ run[w] = Idle
    BY DEF CallsInv, CallsAtStatement, Start, Idle, Free
  <1>2. run'[w] \in Run
    <2>1. 1 \in 0..3 /\ 0 \in 0..MaxRequests
      BY BoundsAssumption
    <2> QED
      BY <1>1, <2>1 DEF Run
  <1>3. run' \in [Threads -> Run]
    BY <1>1, <1>2 DEF CallsInv, Start
  <1>4. 1 \in 1..Len(Script[call]) /\ call # "none"
    <2>1. Len(Script[call]) \in 1..3
      BY Scripts DEF Calls, ServiceCalls, Tools
    <2>2. call # "none"
      BY DEF Calls, ServiceCalls, Tools
    <2> DEFINE n == Len(Script[call])
    <2> HIDE DEF n
    <2>3. n \in 1..3
      BY <2>1 DEF n
    <2>4. 1 \in 1..n
      BY <2>3
    <2> QED
      BY <2>2, <2>4 DEF n
  <1>5. CallsAtStatement'
    BY <1>1, <1>4 DEF CallsInv, CallsAtStatement
  <1>6. inUse = {u \in Threads : run'[u].conn = "used"}
    BY <1>1 DEF CallsInv, ConnectionsAccounted, Idle
  <1>7. Threads' = Threads
    BY DEF Threads
  <1> QED
    BY <1>1, <1>3, <1>5, <1>6, <1>7 DEF CallsInv, ConnectionsAccounted

-----------------------------------------------------------------------------
(* The tables *)

\* A step after which no call is further in what it writes.
Quiet ==
    /\ \A u \in Threads : HasInserted(u)' => HasInserted(u) /\ run'[u].about = run[u].about
    /\ \A u \in Threads : HasDrawn(u)' => HasDrawn(u) /\ run'[u].ticket = run[u].ticket
    /\ \A u \in Threads : HasTicket(u)' => HasTicket(u) /\ run'[u].ticket = run[u].ticket
    /\ \E w : Undrawn' = Undrawn \/ Undrawn' = Undrawn \ {w}
    /\ \A c \in Categories : \E w : Creating(c)' = Creating(c) \/ Creating(c)' = Creating(c) \ {w}

LEMMA QuietRegistrations ==
  ASSUME Registrations, Quiet, UNCHANGED <<users, welcomed>>
  PROVE  Registrations'
  BY DEF Registrations, Quiet, InsertedOnce, WelcomedOnce, Threads

LEMMA QuietTickets ==
  ASSUME Tickets, Quiet, UNCHANGED <<tickets, receipts>>
  PROVE  Tickets'
  BY DEF Tickets, Quiet, TicketsDrawn, ReceiptNotOlder, Threads

LEMMA QuietCounts ==
  ASSUME Counts, Quiet, UNCHANGED <<requests, nextTicket, products>>
  PROVE  Counts'
  <1>1. IsFiniteSet(Undrawn') /\ nextTicket + Cardinality(Undrawn') <= requests + 1
    <2>1. PICK w : Undrawn' = Undrawn \/ Undrawn' = Undrawn \ {w}
      BY DEF Quiet
    <2>2. /\ IsFiniteSet(Undrawn) /\ nextTicket + Cardinality(Undrawn) <= requests + 1
          /\ nextTicket \in Nat /\ requests \in Nat
      BY DEF Counts, RequestsCounted
    <2>3. /\ IsFiniteSet(Undrawn \ {w}) /\ Cardinality(Undrawn) \in Nat
          /\ Cardinality(Undrawn \ {w}) \in Nat /\ Cardinality(Undrawn \ {w}) <= Cardinality(Undrawn)
      BY <2>2, TakeOut
    <2>4. nextTicket + Cardinality(Undrawn \ {w}) <= requests + 1
      BY <2>2, <2>3
    <2> QED
      BY <2>1, <2>2, <2>3, <2>4
  <1>2. ASSUME NEW c \in Categories
        PROVE  IsFiniteSet(Creating(c)') /\ products[c] + Cardinality(Creating(c)') <= requests
    <2>1. PICK w : Creating(c)' = Creating(c) \/ Creating(c)' = Creating(c) \ {w}
      BY DEF Quiet
    <2>2. /\ IsFiniteSet(Creating(c)) /\ products[c] + Cardinality(Creating(c)) <= requests
          /\ products[c] \in Nat /\ requests \in Nat
      BY DEF Counts, RequestsCounted
    <2>3. /\ IsFiniteSet(Creating(c) \ {w}) /\ Cardinality(Creating(c)) \in Nat
          /\ Cardinality(Creating(c) \ {w}) \in Nat
          /\ Cardinality(Creating(c) \ {w}) <= Cardinality(Creating(c))
      BY <2>2, TakeOut
    <2>4. products[c] + Cardinality(Creating(c) \ {w}) <= requests
      BY <2>2, <2>3
    <2> QED
      BY <2>1, <2>2, <2>3, <2>4
  <1> QED
    BY <1>1, <1>2 DEF Counts, RequestsCounted

LEMMA QuietCategories ==
  ASSUME CategoriesKept, UNCHANGED <<category, products>>
  PROVE  CategoriesKept'
  BY DEF CategoriesKept, ProductsHaveCategory

LEMMA QuietTables ==
  ASSUME TablesInv, Quiet, UNCHANGED <<tables, history>>
  PROVE  TablesInv'
  <1>1. UNCHANGED <<users, tickets, nextTicket, category, products, requests, welcomed, receipts>>
    BY DEF tables, history
  <1> QED
    BY <1>1, QuietRegistrations, QuietTickets, QuietCounts, QuietCategories DEF TablesInv

\* What one thread does is quiet, if its own call is no further.
LEMMA QuietStep ==
  ASSUME NEW w \in Threads, \A u \in Threads \ {w} : run'[u] = run[u],
         HasInserted(w)' => HasInserted(w) /\ run'[w].about = run[w].about,
         HasDrawn(w)' => HasDrawn(w) /\ run'[w].ticket = run[w].ticket,
         HasTicket(w)' => HasTicket(w) /\ run'[w].ticket = run[w].ticket,
         (w \in Undrawn)' => w \in Undrawn,
         \A c \in Categories : (w \in Creating(c))' => w \in Creating(c)
  PROVE  Quiet
  <1>1. \A u \in Threads : HasInserted(u)' => HasInserted(u) /\ run'[u].about = run[u].about
    BY DEF HasInserted
  <1>2. \A u \in Threads : HasDrawn(u)' => HasDrawn(u) /\ run'[u].ticket = run[u].ticket
    BY DEF HasDrawn
  <1>3. \A u \in Threads : HasTicket(u)' => HasTicket(u) /\ run'[u].ticket = run[u].ticket
    BY DEF HasTicket
  <1>4. Undrawn' = Undrawn \/ Undrawn' = Undrawn \ {w}
    BY DEF Undrawn, Threads
  <1>5. \A c \in Categories : Creating(c)' = Creating(c) \/ Creating(c)' = Creating(c) \ {w}
    BY DEF Creating, Threads
  <1> QED
    BY <1>1, <1>2, <1>3, <1>4, <1>5 DEF Quiet

LEMMA QuietIdle ==
  ASSUME CallsInv, NEW w \in Threads, run' = [run EXCEPT ![w] = Idle]
  PROVE  Quiet
  <1>1. run'[w] = Idle /\ \A u \in Threads \ {w} : run'[u] = run[u]
    BY DEF CallsInv
  <1>2. run'[w].call = "none"
    BY <1>1 DEF Idle
  <1> QED
    BY <1>1, <1>2, QuietStep DEF HasInserted, HasDrawn, HasTicket, Undrawn, Creating

LEMMA QuietAdvance ==
  ASSUME CallsInv, NEW w \in Threads, run[w].call # "none",
         run' = [run EXCEPT ![w] = Advanced(run[w])], inUse' = inUse \ {w},
         run[w].at < Len(Script[run[w].call]),
         Statement(w) \notin {"user+", "ticket+"}
  PROVE  CallsInv' /\ Quiet
  <1>1. /\ CallsInv'
        /\ run'[w].call = run[w].call /\ run'[w].about = run[w].about
        /\ run'[w].at = run[w].at + 1 /\ run'[w].conn = "none" /\ run'[w].ticket = run[w].ticket
    BY CallsAdvance
  <1>2. \A u \in Threads \ {w} : run'[u] = run[u]
    BY DEF CallsInv
  <1>3. run[w].at \in 1..3
    BY StatementAt
  <1>4. ~(run[w].call = "register" /\ run[w].at = 2) /\ ~(run[w].call = "create_after_sale" /\ run[w].at = 2)
    <2>1. run[w].call = "register" /\ run[w].at = 2 => Statement(w) = "user+"
      BY DEF Statement, Script
    <2> QED
      BY <2>1, StatementAt
  <1>5. ~HasInserted(w)' /\ ~HasDrawn(w)' /\ ~HasTicket(w)'
    BY <1>1, <1>3, <1>4 DEF HasInserted, HasDrawn, HasTicket
  <1>6. (w \in Undrawn)' => w \in Undrawn
    BY <1>1, <1>3, <1>4 DEF Undrawn
  <1>7. \A c \in Categories : (w \in Creating(c))' => w \in Creating(c)
    BY <1>1 DEF Creating
  <1> QED
    BY <1>1, <1>2, <1>5, <1>6, <1>7, QuietStep

LEMMA ReturnEffect ==
  ASSUME CallsInv, NEW w \in Threads, NEW failed, Return(w, failed)
  PROVE  /\ CallsInv' /\ Quiet /\ UNCHANGED serving
         /\ run'[w] = Idle /\ \A u \in Threads \ {w} : run'[u] = run[u]
  <1>1. run' = [run EXCEPT ![w] = Idle] /\ inUse' = inUse \ {w} /\ UNCHANGED serving
    BY DEF Return, PutConn
  <1> QED
    BY <1>1, CallsEnd, QuietIdle DEF CallsInv

LEMMA AdvanceEffect ==
  ASSUME NEW w, Advance(w)
  PROVE  run' = [run EXCEPT ![w] = Advanced(run[w])] /\ inUse' = inUse \ {w} /\ UNCHANGED serving
  BY DEF Advance, Advanced, PutConn

LEMMA ReadyCall ==
  ASSUME NEW w, NEW s, Ready(w, s)
  PROVE  run[w].call # "none" /\ run[w].conn = "used" /\ Statement(w) = s
  BY DEF Ready

-----------------------------------------------------------------------------
(* One lemma for each step of a service *)

LEMMA InvGetConn ==
  ASSUME CallsInv, TablesInv, NEW w \in Threads, GetConn(w)
  PROVE  CallsInv' /\ TablesInv'
  <1> DEFINE n == Reserved(w)
  <1>1. /\ run[w].call # "none" /\ run[w].conn = "none" /\ Room
        /\ inUse' = inUse \union {w}
        /\ nextTicket' = IF Statement(w) = "ticket+" THEN nextTicket + 1 ELSE nextTicket
        /\ run' = [run EXCEPT ![w] = Connected(run[w], n)]
        /\ UNCHANGED <<users, tickets, category, products, serving, history>>
    BY DEF GetConn, Connected
  <1>2. UNCHANGED <<requests, welcomed, receipts>>
    BY <1>1 DEF history
  <1>3. \A u \in Threads \ {w} : run'[u] = run[u]
    BY <1>1 DEF CallsInv
  <1>4. CASE Statement(w) = "ticket+"
    <2>1. run[w].call = "create_after_sale" /\ run[w].at = 2 /\ w \in Undrawn
      BY <1>1, <1>4, StatementAt DEF Undrawn
    <2>2. n = nextTicket /\ nextTicket' = nextTicket + 1
      BY <1>1, <1>4 DEF Reserved
    <2>3. /\ IsFiniteSet(Undrawn) /\ nextTicket + Cardinality(Undrawn) <= requests + 1
          /\ nextTicket \in 1..MaxRequests + 1 /\ requests \in 0..MaxRequests /\ MaxRequests \in Nat
      BY BoundsAssumption DEF TablesInv, Counts, RequestsCounted
    <2>4. /\ IsFiniteSet(Undrawn \ {w}) /\ Cardinality(Undrawn) \in Nat
          /\ Cardinality(Undrawn \ {w}) \in Nat /\ Cardinality(Undrawn \ {w}) + 1 = Cardinality(Undrawn)
      BY <2>1, <2>3, TakeOut
    <2>5. /\ nextTicket \in 1..MaxRequests /\ nextTicket + 1 \in 1..MaxRequests + 1
          /\ (nextTicket + 1) + Cardinality(Undrawn \ {w}) <= requests + 1
          /\ nextTicket \in 0..MaxRequests
      BY <2>3, <2>4
    <2> HIDE DEF n
    <2>6. /\ CallsInv'
          /\ run'[w].call = run[w].call /\ run'[w].about = run[w].about
          /\ run'[w].at = run[w].at /\ run'[w].conn = "used" /\ run'[w].ticket = nextTicket
      BY <1>1, <2>2, <2>5, CallsConnect
    <2>7. Registrations'
      BY <1>1, <1>2, <1>3, <2>1, <2>6 DEF TablesInv, Registrations, InsertedOnce, HasInserted, WelcomedOnce, Threads
    <2>8. Tickets'
      <3>1. TicketsDrawn'
        BY <1>1, <1>3, <2>1, <2>5, <2>6 DEF TablesInv, Tickets, TicketsDrawn, HasDrawn, HasTicket, Threads
      <3> QED
        BY <1>1, <1>2, <3>1 DEF TablesInv, Tickets, ReceiptNotOlder
    <2>9. Counts'
      <3>1. Undrawn' = Undrawn \ {w}
        BY <1>3, <2>1, <2>6 DEF Undrawn, Threads
      <3>2. \A c \in Categories : Creating(c)' = Creating(c)
        BY <1>3, <2>1, <2>6 DEF Creating, Threads
      <3> QED
        BY <1>1, <1>2, <2>2, <2>4, <2>5, <3>1, <3>2 DEF TablesInv, Counts, RequestsCounted
    <2> QED
      BY <1>1, <2>6, <2>7, <2>8, <2>9, QuietCategories DEF TablesInv
  <1>5. CASE Statement(w) # "ticket+"
    <2>1. n = run[w].ticket /\ n \in 0..MaxRequests /\ nextTicket' = nextTicket
      BY <1>1, <1>5 DEF Reserved, CallsInv, Run
    <2> HIDE DEF n
    <2>2. /\ CallsInv'
          /\ run'[w].call = run[w].call /\ run'[w].about = run[w].about
          /\ run'[w].at = run[w].at /\ run'[w].conn = "used" /\ run'[w].ticket = run[w].ticket
      BY <1>1, <2>1, CallsConnect
    <2>3. ~(run[w].call = "create_after_sale" /\ run[w].at = 2)
      BY <1>1, <1>5, StatementAt
    <2>4. Quiet
      BY <1>3, <2>2, <2>3, QuietStep DEF HasInserted, HasDrawn, HasTicket, Undrawn, Creating
    <2> QED
      BY <1>1, <1>2, <2>1, <2>2, <2>4, QuietTables DEF tables, history
  <1> QED
    BY <1>4, <1>5

\* An error ends the call: nothing it has not committed is in the tables.
LEMMA InvEndOfCall ==
  ASSUME CallsInv, TablesInv, NEW w \in Threads, Exhausted(w) \/ StatementFails(w) \/ ClosedUnderneath(w)
  PROVE  CallsInv' /\ TablesInv' /\ UNCHANGED serving
  <1>1. run' = [run EXCEPT ![w] = Idle] /\ UNCHANGED <<serving, tables, history>>
    BY DEF Exhausted, StatementFails, ClosedUnderneath, Return, pool
  <1>2. inUse' = inUse \ {w}
    <2>1. CASE Exhausted(w) \/ ClosedUnderneath(w)
      <3>1. w \notin inUse /\ UNCHANGED inUse
        BY <2>1 DEF Exhausted, ClosedUnderneath, CallsInv, ConnectionsAccounted, pool
      <3> QED
        BY <3>1
    <2>2. CASE StatementFails(w)
      BY <2>2 DEF StatementFails, Return, PutConn
    <2> QED
      BY <2>1, <2>2
  <1> QED
    BY <1>1, <1>2, CallsEnd, QuietIdle, QuietTables

LEMMA InvConnect ==
  ASSUME CallsInv, TablesInv, NEW w \in Threads, Connect(w)
  PROVE  CallsInv' /\ TablesInv' /\ UNCHANGED serving
  BY InvGetConn, InvEndOfCall DEF Connect, GetConn

\* The steps that only read.
LEMMA InvChecks ==
  ASSUME CallsInv, TablesInv, NEW w \in Threads, CheckUser(w) \/ CheckOrder(w) \/ CountProducts(w)
  PROVE  CallsInv' /\ TablesInv' /\ UNCHANGED serving
  <1>1. /\ run[w].call # "none" /\ Statement(w) \in {"user?", "order?", "products?"}
        /\ Advance(w) \/ Return(w, FALSE)
        /\ UNCHANGED <<tables, history>>
    BY DEF CheckUser, CheckOrder, CountProducts, Ready
  <1>2. run[w].at = 1 /\ run[w].call \in {"register", "create_after_sale", "delete_category"}
    BY <1>1, StatementAt
  <1>3. CASE Advance(w)
    <2>1. run[w].at < Len(Script[run[w].call])
      <3> DEFINE n == Len(Script[run[w].call])
      <3>1. n \in {2, 3}
        BY <1>2, Scripts
      <3> HIDE DEF n
      <3>2. run[w].at < n
        BY <1>2, <3>1
      <3> QED
        BY <3>2 DEF n
    <2>2. Statement(w) \notin {"user+", "ticket+"}
      BY <1>1
    <2> QED
      BY <1>1, <1>3, <2>1, <2>2, AdvanceEffect, QuietAdvance, QuietTables
  <1>4. CASE Return(w, FALSE)
    BY <1>1, <1>4, ReturnEffect, QuietTables
  <1> QED
    BY <1>1, <1>3, <1>4

LEMMA InvReadForTool ==
  ASSUME CallsInv, TablesInv, NEW w \in Threads, ReadForTool(w)
  PROVE  CallsInv' /\ TablesInv' /\ UNCHANGED serving
  <1>1. /\ run[w].call \in Tools /\ run[w].call # "none"
        /\ \/ Return(w, FALSE)
           \/ Advance(w) /\ run[w].at # Len(Script[run[w].call])
        /\ UNCHANGED <<tables, history>>
    BY DEF ReadForTool, Tools
  <1>2. CASE Return(w, FALSE)
    BY <1>1, <1>2, ReturnEffect, QuietTables
  <1>3. CASE Advance(w) /\ run[w].at # Len(Script[run[w].call])
    <2>1. run[w].at < Len(Script[run[w].call])
      <3> DEFINE n == Len(Script[run[w].call])
      <3>1. n \in 1..3
        BY <1>1, Scripts DEF Tools
      <3>2. run[w].at \in 1..n /\ run[w].at # n
        BY <1>1, <1>3 DEF CallsInv, CallsAtStatement
      <3> HIDE DEF n
      <3>3. run[w].at < n
        BY <3>1, <3>2
      <3> QED
        BY <3>3 DEF n
    <2>2. Statement(w) \notin {"user+", "ticket+"}
      BY <1>1, StatementAt DEF Tools
    <2> QED
      BY <1>1, <1>3, <2>1, <2>2, AdvanceEffect, QuietAdvance, QuietTables
  <1> QED
    BY <1>1, <1>2, <1>3

\* Of the registrations that all found the address free, one inserts it.
LEMMA InvInsertUser ==
  ASSUME CallsInv, TablesInv, NEW w \in Threads, InsertUser(w)
  PROVE  CallsInv' /\ TablesInv' /\ UNCHANGED serving
  <1>1. /\ run[w].call = "register" /\ run[w].at = 2 /\ run[w].about \in Emails
        /\ UNCHANGED <<tickets, nextTicket, category, products, requests, welcomed, receipts>>
    BY ReadyCall, StatementAt DEF InsertUser, history, CallsInv, CallsAtStatement
  <1>2. CASE run[w].about \in users
    <2>1. Return(w, TRUE) /\ UNCHANGED users
      BY <1>2 DEF InsertUser, UniqueViolation
    <2> QED
      BY <1>1, <2>1, ReturnEffect, QuietTables DEF tables, history
  <1>3. CASE run[w].about \notin users
    <2>1. Advance(w) /\ users' = users \union {run[w].about}
      BY <1>3 DEF InsertUser, UniqueViolation
    <2>2. run[w].at < Len(Script[run[w].call])
      BY <1>1, Scripts
    <2>3. /\ CallsInv' /\ UNCHANGED serving
          /\ run'[w].call = "register" /\ run'[w].about = run[w].about /\ run'[w].at = 3
      BY <1>1, <2>1, <2>2, AdvanceEffect, CallsAdvance
    <2>4. \A u \in Threads \ {w} : run'[u] = run[u]
      BY <2>1, AdvanceEffect DEF CallsInv
    <2>5. welcomed[run[w].about] = 0 /\ \A u \in Threads : HasInserted(u) => run[u].about # run[w].about
      BY <1>1, <1>3 DEF TablesInv, Registrations, InsertedOnce, WelcomedOnce
    <2>6. ASSUME NEW u \in Threads, HasInserted(u)'
          PROVE  /\ run'[u].about \in users' /\ welcomed[run'[u].about] = 0
                 /\ \A v \in Threads : HasInserted(v)' /\ run'[v].about = run'[u].about => v = u
      <3>1. CASE u = w
        <4>1. \A v \in Threads \ {w} : HasInserted(v)' => HasInserted(v) /\ run'[v].about = run[v].about
          BY <2>4 DEF HasInserted
        <4> QED
          BY <2>1, <2>3, <2>5, <3>1, <4>1
      <3>2. CASE u # w
        <4>1. HasInserted(u) /\ run'[u].about = run[u].about
          BY <2>4, <2>6, <3>2 DEF HasInserted
        <4>2. \A v \in Threads \ {w} : HasInserted(v)' => HasInserted(v) /\ run'[v].about = run[v].about
          BY <2>4 DEF HasInserted
        <4> QED
          BY <2>1, <2>3, <2>5, <4>1, <4>2 DEF TablesInv, Registrations, InsertedOnce
      <3> QED
        BY <3>1, <3>2
    <2>7. InsertedOnce'
      BY <1>1, <2>6 DEF InsertedOnce, Threads
    <2>8. Registrations'
      BY <1>1, <2>1, <2>5, <2>7 DEF TablesInv, Registrations, WelcomedOnce
    <2>9. Tickets'
      <3>1. \A u \in Threads : /\ HasDrawn(u)' => HasDrawn(u) /\ run'[u].ticket = run[u].ticket
                               /\ HasTicket(u)' => HasTicket(u) /\ run'[u].ticket = run[u].ticket
        BY <2>3, <2>4 DEF HasDrawn, HasTicket
      <3> QED
        BY <1>1, <3>1 DEF TablesInv, Tickets, TicketsDrawn, ReceiptNotOlder, Threads
    <2>10. Counts'
      <3>1. Undrawn' = Undrawn /\ \A c \in Categories : Creating(c)' = Creating(c)
        BY <1>1, <2>3, <2>4 DEF Undrawn, Creating, Threads
      <3> QED
        BY <1>1, <3>1 DEF TablesInv, Counts, RequestsCounted
    <2> QED
      BY <1>1, <2>3, <2>8, <2>9, <2>10, QuietCategories DEF TablesInv
  <1> QED
    BY <1>2, <1>3

LEMMA InvReadUser ==
  ASSUME CallsInv, TablesInv, NEW w \in Threads, ReadUser(w)
  PROVE  CallsInv' /\ TablesInv' /\ UNCHANGED serving
  <1> DEFINE e == run[w].about
  <1>1. /\ run[w].call = "register" /\ run[w].at = 3 /\ e \in Emails /\ Return(w, FALSE)
        /\ welcomed' = [welcomed EXCEPT ![e] = welcomed[e] + 1]
        /\ UNCHANGED <<users, tickets, nextTicket, category, products, requests, receipts>>
    BY ReadyCall, StatementAt DEF ReadUser, tables, CallsInv, CallsAtStatement
  <1>2. /\ CallsInv' /\ Quiet /\ UNCHANGED serving
        /\ run'[w] = Idle /\ \A u \in Threads \ {w} : run'[u] = run[u]
    BY <1>1, ReturnEffect
  <1>3. /\ HasInserted(w) /\ e \in users /\ welcomed[e] = 0
        /\ \A u \in Threads \ {w} : HasInserted(u) => run[u].about # e
    BY <1>1 DEF TablesInv, Registrations, InsertedOnce, HasInserted
  <1> HIDE DEF e
  <1>4. \A u \in Threads : HasInserted(u)' => u # w /\ HasInserted(u) /\ run'[u].about = run[u].about
    BY <1>2 DEF HasInserted, Idle
  <1>5. welcomed' \in [Emails -> Nat] /\ welcomed'[e] = 1 /\ \A f \in Emails \ {e} : welcomed'[f] = welcomed[f]
    BY <1>1, <1>3 DEF TablesInv, Registrations
  <1>6. InsertedOnce'
    BY <1>1, <1>3, <1>4, <1>5 DEF TablesInv, Registrations, InsertedOnce, Threads
  <1>7. WelcomedOnce'
    BY <1>1, <1>3, <1>5 DEF TablesInv, Registrations, WelcomedOnce
  <1>8. Registrations'
    BY <1>1, <1>5, <1>6, <1>7 DEF TablesInv, Registrations
  <1> QED
    BY <1>1, <1>2, <1>8, QuietTickets, QuietCounts, QuietCategories DEF TablesInv

LEMMA InvInsertTicket ==
  ASSUME CallsInv, TablesInv, NEW w \in Threads, InsertTicket(w)
  PROVE  CallsInv' /\ TablesInv' /\ UNCHANGED serving
  <1>1. /\ run[w].call = "create_after_sale" /\ run[w].at = 2 /\ run[w].conn = "used" /\ Advance(w)
        /\ tickets' = tickets \union {run[w].ticket}
        /\ UNCHANGED <<users, nextTicket, category, products, requests, welcomed, receipts>>
    BY ReadyCall, StatementAt DEF InsertTicket, history
  <1>2. run[w].at < Len(Script[run[w].call])
    BY <1>1, Scripts
  <1>3. /\ CallsInv' /\ UNCHANGED serving
        /\ run'[w].call = "create_after_sale" /\ run'[w].at = 3 /\ run'[w].ticket = run[w].ticket
    BY <1>1, <1>2, AdvanceEffect, CallsAdvance
  <1>4. \A u \in Threads \ {w} : run'[u] = run[u]
    BY <1>1, AdvanceEffect DEF CallsInv
  <1>5. run[w].ticket \in 1..MaxRequests
    BY <1>1 DEF TablesInv, Tickets, TicketsDrawn, HasDrawn
  <1>6. Registrations'
    <2>1. \A u \in Threads : HasInserted(u)' => HasInserted(u) /\ run'[u].about = run[u].about
      BY <1>3, <1>4 DEF HasInserted
    <2> QED
      BY <1>1, <2>1 DEF TablesInv, Registrations, InsertedOnce, WelcomedOnce, Threads
  <1>7. Tickets'
    <2>1. \A u \in Threads : /\ HasDrawn(u)' => HasDrawn(u) /\ run'[u].ticket = run[u].ticket
                             /\ HasTicket(u)' => (HasTicket(u) /\ run'[u].ticket = run[u].ticket) \/ u = w
      BY <1>3, <1>4 DEF HasDrawn, HasTicket
    <2>2. TicketsDrawn'
      BY <1>1, <1>3, <2>1 DEF TablesInv, Tickets, TicketsDrawn, Threads
    <2> QED
      BY <1>1, <1>5, <2>2 DEF TablesInv, Tickets, ReceiptNotOlder
  <1>8. Counts'
    <2>1. Undrawn' = Undrawn /\ \A c \in Categories : Creating(c)' = Creating(c)
      BY <1>1, <1>3, <1>4 DEF Undrawn, Creating, Threads
    <2> QED
      BY <1>1, <2>1 DEF TablesInv, Counts, RequestsCounted
  <1> QED
    BY <1>1, <1>3, <1>6, <1>7, <1>8, QuietCategories DEF TablesInv

\* What is read back is the request just made or a later one.
LEMMA InvReadTicket ==
  ASSUME CallsInv, TablesInv, NEW w \in Threads, ReadTicket(w)
  PROVE  CallsInv' /\ TablesInv' /\ UNCHANGED serving
  <1> DEFINE own == run[w].ticket
  <1>1. /\ run[w].call = "create_after_sale" /\ run[w].at = 3 /\ Return(w, FALSE)
        /\ receipts' = receipts \union {<<own, Latest>>}
        /\ UNCHANGED <<users, tickets, nextTicket, category, products, requests, welcomed>>
    BY ReadyCall, StatementAt DEF ReadTicket, tables
  <1>2. CallsInv' /\ Quiet /\ UNCHANGED serving
    BY <1>1, ReturnEffect
  <1>3. own \in tickets
    BY <1>1 DEF TablesInv, Tickets, TicketsDrawn, HasTicket
  <1>4. tickets \in SUBSET Nat /\ (\A n \in tickets : n <= MaxRequests) /\ MaxRequests \in Nat
    BY BoundsAssumption DEF TablesInv, Tickets
  <1>5. \E n \in tickets : \A m \in tickets : m <= n
    BY <1>3, <1>4, LargestExists
  <1>6. Latest \in tickets /\ \A m \in tickets : Latest >= m
    <2>1. \E n \in tickets : \A m \in tickets : n >= m
      BY <1>4, <1>5
    <2> QED
      BY <2>1 DEF Latest, Max
  <1>7. own <= Latest
    BY <1>3, <1>4, <1>6
  <1> HIDE DEF own
  <1>8. Tickets'
    <2>1. ReceiptNotOlder'
      BY <1>1, <1>3, <1>6, <1>7 DEF TablesInv, Tickets, ReceiptNotOlder
    <2>2. TicketsDrawn'
      BY <1>1, <1>2 DEF TablesInv, Tickets, TicketsDrawn, Quiet, Threads
    <2>3. own \in 1..MaxRequests /\ Latest \in 1..MaxRequests
      BY <1>3, <1>6 DEF TablesInv, Tickets
    <2> QED
      BY <1>1, <2>1, <2>2, <2>3 DEF TablesInv, Tickets
  <1> QED
    BY <1>1, <1>2, <1>8, QuietRegistrations, QuietCounts, QuietCategories DEF TablesInv

LEMMA InvDeleteCategory ==
  ASSUME CallsInv, TablesInv, NEW w \in Threads, DeleteCategory(w)
  PROVE  CallsInv' /\ TablesInv' /\ UNCHANGED serving
  <1>1. /\ Return(w, Referenced(run[w].about))
        /\ category' = IF products[run[w].about] > 0 THEN category ELSE category \ {run[w].about}
        /\ UNCHANGED <<users, tickets, nextTicket, products, requests, welcomed, receipts>>
    BY DEF DeleteCategory, Referenced, history
  <1>2. CallsInv' /\ Quiet /\ UNCHANGED serving
    BY <1>1, ReturnEffect
  <1>3. CategoriesKept'
    BY <1>1 DEF TablesInv, CategoriesKept, ProductsHaveCategory
  <1> QED
    BY <1>1, <1>2, <1>3, QuietRegistrations, QuietTickets, QuietCounts DEF TablesInv

LEMMA InvInsertProduct ==
  ASSUME CallsInv, TablesInv, NEW w \in Threads, InsertProduct(w)
  PROVE  CallsInv' /\ TablesInv' /\ UNCHANGED serving
  <1>0. run[w].call = "create_product" /\ run[w].about \in Categories
    BY ReadyCall, StatementAt DEF InsertProduct, CallsInv, CallsAtStatement
  <1>. PICK c \in Categories : c = run[w].about
    BY <1>0
  <1>1. /\ run[w].call = "create_product" /\ c = run[w].about /\ Return(w, c \notin category)
        /\ products' = IF c \in category THEN [products EXCEPT ![c] = products[c] + 1] ELSE products
        /\ UNCHANGED <<users, tickets, nextTicket, category, requests, welcomed, receipts>>
    BY <1>0 DEF InsertProduct, history
  <1>2. /\ CallsInv' /\ Quiet /\ UNCHANGED serving
        /\ run'[w] = Idle /\ \A u \in Threads \ {w} : run'[u] = run[u]
    BY <1>1, ReturnEffect
  <1>3. CASE c \notin category
    BY <1>1, <1>2, <1>3, QuietTables DEF tables, history
  <1>4. CASE c \in category
    <2>1. /\ IsFiniteSet(Creating(c)) /\ products[c] + Cardinality(Creating(c)) <= requests
          /\ products[c] \in Nat /\ requests \in 0..MaxRequests /\ MaxRequests \in Nat
      BY <1>1, BoundsAssumption DEF TablesInv, Counts, RequestsCounted
    <2>2. w \in Creating(c)
      BY <1>1 DEF Creating
    <2>3. /\ IsFiniteSet(Creating(c) \ {w}) /\ Cardinality(Creating(c)) \in Nat
          /\ Cardinality(Creating(c) \ {w}) \in Nat
          /\ Cardinality(Creating(c) \ {w}) + 1 = Cardinality(Creating(c))
      BY <2>1, <2>2, TakeOut
    <2>4. products[c] + 1 \in 0..MaxRequests /\ (products[c] + 1) + Cardinality(Creating(c) \ {w}) <= requests
      BY <2>1, <2>3
    <2>5. Creating(c)' = Creating(c) \ {w}
      BY <1>2 DEF Creating, Idle, Threads
    <2>6. \A d \in Categories \ {c} : Creating(d)' = Creating(d)
      BY <1>1, <1>2 DEF Creating, Idle, Threads
    <2>7. /\ products' \in [Categories -> 0..MaxRequests] /\ products'[c] = products[c] + 1
          /\ \A d \in Categories \ {c} : products'[d] = products[d]
      BY <1>1, <1>4, <2>4 DEF TablesInv, Counts
    <2>8. Undrawn' = Undrawn
      BY <1>1, <1>2 DEF Undrawn, Idle, Threads
    <2>9. Counts'
      BY <1>1, <2>3, <2>4, <2>5, <2>6, <2>7, <2>8 DEF TablesInv, Counts, RequestsCounted
    <2>10. CategoriesKept'
      BY <1>1, <1>4, <2>7 DEF TablesInv, CategoriesKept, ProductsHaveCategory
    <2> QED
      BY <1>1, <1>2, <2>9, <2>10, QuietRegistrations, QuietTickets DEF TablesInv
  <1> QED
    BY <1>3, <1>4

LEMMA InvServiceStatement ==
  ASSUME CallsInv, TablesInv, NEW w \in Threads, ServiceStatement(w)
  PROVE  CallsInv' /\ TablesInv' /\ UNCHANGED serving
  BY InvChecks, InvInsertUser, InvReadUser, InvInsertTicket, InvReadTicket, InvDeleteCategory,
     InvInsertProduct DEF ServiceStatement

\* A request arrives: it may draw a ticket, or create a product.
LEMMA InvRequest ==
  ASSUME CallsInv, TablesInv, NEW w \in Handlers, Request(w)
  PROVE  CallsInv' /\ TablesInv' /\ UNCHANGED serving
  <1>1. /\ requests < MaxRequests /\ requests' = requests + 1
        /\ UNCHANGED <<inUse, serving, users, tickets, nextTicket, category, products, welcomed, receipts>>
    BY DEF Request, pool, tables
  <1>2. w \in Threads
    BY DEF Threads
  <1>3. PICK call \in ServiceCalls, about \in Emails \union Categories \union {0} :
           /\ Start(w, call, about)
           /\ call = "register" => about \in Emails
           /\ call \in {"delete_category", "create_product"} => about \in Categories
    BY DEF Request, ServiceCalls
  <1>4. /\ call \notin Tools /\ call \in Calls /\ w \notin ToolThreads
    BY <1>2, ThreadsAssumption DEF ServiceCalls, Tools, Calls
  <1>5. /\ CallsInv'
        /\ run'[w] = [call |-> call, at |-> 1, conn |-> "none", about |-> about, ticket |-> 0]
        /\ \A u \in Threads \ {w} : run'[u] = run[u]
    BY <1>1, <1>2, <1>3, <1>4, CallsStart
  <1>6. /\ run'[w].call = call /\ run'[w].at = 1 /\ run'[w].conn = "none"
        /\ run'[w].about = about /\ run'[w].ticket = 0
    BY <1>5
  <1>7. \A u \in Threads : /\ HasInserted(u)' => HasInserted(u) /\ run'[u].about = run[u].about
                           /\ HasDrawn(u)' => HasDrawn(u) /\ run'[u].ticket = run[u].ticket
                           /\ HasTicket(u)' => HasTicket(u) /\ run'[u].ticket = run[u].ticket
    BY <1>5, <1>6 DEF HasInserted, HasDrawn, HasTicket
  <1>8. Registrations'
    BY <1>1, <1>7 DEF TablesInv, Registrations, InsertedOnce, WelcomedOnce, Threads
  <1>9. Tickets'
    BY <1>1, <1>7 DEF TablesInv, Tickets, TicketsDrawn, ReceiptNotOlder, Threads
  <1>10. /\ requests \in Nat /\ requests + 1 \in 0..MaxRequests
    BY <1>1, BoundsAssumption DEF TablesInv, Counts
  <1>11. IsFiniteSet(Undrawn') /\ nextTicket + Cardinality(Undrawn') <= (requests + 1) + 1
    <2>1. Undrawn' = Undrawn \/ Undrawn' = Undrawn \union {w}
      <3>1. \A u \in Threads \ {w} : u \in Undrawn' <=> u \in Undrawn
        BY <1>5 DEF Undrawn, Threads
      <3>2. run[w].call = "none"
        BY <1>3 DEF Start, Free
      <3>3. w \notin Undrawn /\ Undrawn \subseteq Threads /\ Undrawn' \subseteq Threads
        BY <3>2 DEF Undrawn, Threads
      <3> QED
        BY <1>2, <3>1, <3>3
    <2>2. /\ IsFiniteSet(Undrawn) /\ nextTicket + Cardinality(Undrawn) <= requests + 1
          /\ nextTicket \in Nat
      BY DEF TablesInv, Counts, RequestsCounted
    <2>3. /\ IsFiniteSet(Undrawn \union {w}) /\ Cardinality(Undrawn) \in Nat
          /\ Cardinality(Undrawn \union {w}) \in Nat
          /\ Cardinality(Undrawn \union {w}) <= Cardinality(Undrawn) + 1
      BY <2>2, PutIn
    <2>4. /\ nextTicket + Cardinality(Undrawn \union {w}) <= (requests + 1) + 1
          /\ nextTicket + Cardinality(Undrawn) <= (requests + 1) + 1
      BY <1>10, <2>2, <2>3
    <2> QED
      BY <2>1, <2>2, <2>3, <2>4
  <1>12. ASSUME NEW c \in Categories
         PROVE  IsFiniteSet(Creating(c)') /\ products[c] + Cardinality(Creating(c)') <= requests + 1
    <2>1. Creating(c)' = Creating(c) \/ Creating(c)' = Creating(c) \union {w}
      <3>1. \A u \in Threads \ {w} : u \in Creating(c)' <=> u \in Creating(c)
        BY <1>5 DEF Creating, Threads
      <3>2. run[w].call = "none"
        BY <1>3 DEF Start, Free
      <3>3. w \notin Creating(c) /\ Creating(c) \subseteq Threads /\ Creating(c)' \subseteq Threads
        BY <3>2 DEF Creating, Threads
      <3> QED
        BY <1>2, <3>1, <3>3
    <2>2. /\ IsFiniteSet(Creating(c)) /\ products[c] + Cardinality(Creating(c)) <= requests
          /\ products[c] \in Nat
      BY DEF TablesInv, Counts, RequestsCounted
    <2>3. /\ IsFiniteSet(Creating(c) \union {w}) /\ Cardinality(Creating(c)) \in Nat
          /\ Cardinality(Creating(c) \union {w}) \in Nat
          /\ Cardinality(Creating(c) \union {w}) <= Cardinality(Creating(c)) + 1
      BY <2>2, PutIn
    <2>4. /\ products[c] + Cardinality(Creating(c) \union {w}) <= requests + 1
          /\ products[c] + Cardinality(Creating(c)) <= requests + 1
      BY <1>10, <2>2, <2>3
    <2> QED
      BY <2>1, <2>2, <2>3, <2>4
  <1>13. Counts'
    BY <1>1, <1>10, <1>11, <1>12 DEF TablesInv, Counts, RequestsCounted
  <1> QED
    BY <1>1, <1>5, <1>8, <1>9, <1>13, QuietCategories DEF TablesInv

LEMMA InvStartTool ==
  ASSUME CallsInv, TablesInv, NEW w \in ToolThreads, NEW tool \in Tools, Start(w, tool, 0),
         UNCHANGED <<pool, tables, history>>
  PROVE  CallsInv' /\ TablesInv'
  <1>1. w \in Threads /\ w \notin Handlers
    BY ThreadsAssumption DEF Threads
  <1>2. /\ tool \in Calls /\ tool \notin ServiceCalls
        /\ tool \notin {"register", "create_after_sale", "delete_category", "create_product"}
    BY DEF Calls, ServiceCalls, Tools
  <1>3. /\ CallsInv'
        /\ run'[w] = [call |-> tool, at |-> 1, conn |-> "none", about |-> 0, ticket |-> 0]
        /\ \A u \in Threads \ {w} : run'[u] = run[u]
    BY <1>1, <1>2, CallsStart DEF pool
  <1>4. run'[w].call \notin {"register", "create_after_sale", "delete_category", "create_product"}
    BY <1>2, <1>3
  <1>5. Quiet
    BY <1>1, <1>3, <1>4, QuietStep DEF HasInserted, HasDrawn, HasTicket, Undrawn, Creating
  <1> QED
    BY <1>3, <1>5, QuietTables

\* close_pool takes away every connection at once.
LEMMA InvClosePool ==
  ASSUME CallsInv, TablesInv, \A w \in Handlers : Free(w), inUse' = {},
         run' = [w \in Threads |-> IF run[w].conn = "used" THEN Closed(run[w]) ELSE run[w]],
         UNCHANGED <<tables, history>>
  PROVE  CallsInv' /\ TablesInv'
  <1>1. ASSUME NEW u \in Threads
        PROVE  /\ run[u] \in Run /\ run'[u] \in Run
               /\ run'[u].call = run[u].call /\ run'[u].about = run[u].about
               /\ run'[u].at = run[u].at /\ run'[u].ticket = run[u].ticket
               /\ run'[u].conn # "used"
               /\ run'[u].conn = "none" <=> run[u].conn = "none"
               /\ run[u].conn # "used" => run'[u] = run[u]
    BY ClosedRun DEF CallsInv
  <1>2. \A u \in Threads : run[u].call = "none" => run[u].conn # "used" /\ run[u] = Idle
    BY DEF CallsInv, CallsAtStatement, Idle
  <1>3. CallsAtStatement'
    <2>1. \A u \in Handlers : run'[u].conn # "closed" /\ run'[u].call = "none"
      BY <1>1, <1>2 DEF Free, Threads, Idle
    <2>2. \A u \in Threads : /\ run'[u].call = "none" => run'[u] = Idle
                             /\ u \in Handlers => run'[u].call \notin Tools /\ run'[u].conn # "closed"
      BY <1>1, <1>2, <2>1 DEF Tools
    <2>3. \A u \in Threads :
             /\ run'[u].call # "none" => run'[u].at \in 1..Len(Script[run'[u].call])
             /\ run'[u].call = "register" => run'[u].about \in Emails
             /\ run'[u].call \in {"delete_category", "create_product"} => run'[u].about \in Categories
             /\ u \in ToolThreads => run'[u].call \notin ServiceCalls
      BY <1>1 DEF CallsInv, CallsAtStatement
    <2>4. Threads' = Threads
      BY DEF Threads
    <2> QED
      BY <2>2, <2>3, <2>4 DEF CallsAtStatement
  <1>4. run' \in [Threads -> Run]
    BY <1>1
  <1>5. /\ IsFiniteSet({}) /\ Cardinality({}) = 0 /\ 0 <= MaxConn
    BY FS_EmptySet, BoundsAssumption
  <1>6. {} = {w \in Threads : run'[w].conn = "used"}
    BY <1>1
  <1>7. CallsInv'
    BY <1>3, <1>4, <1>5, <1>6 DEF CallsInv, ConnectionsAccounted, Threads
  <1>8. Quiet
    <2>1. Undrawn' = Undrawn /\ \A c \in Categories : Creating(c)' = Creating(c)
      <3>1. \A u \in Threads : u \in Undrawn' <=> u \in Undrawn
        BY <1>1 DEF Undrawn, Threads
      <3>2. \A c \in Categories : \A u \in Threads : u \in Creating(c)' <=> u \in Creating(c)
        BY <1>1 DEF Creating, Threads
      <3>3. Undrawn \subseteq Threads /\ Undrawn' \subseteq Threads
        BY DEF Undrawn, Threads
      <3>4. \A c \in Categories : Creating(c) \subseteq Threads /\ Creating(c)' \subseteq Threads
        BY DEF Creating, Threads
      <3> QED
        BY <3>1, <3>2, <3>3, <3>4
    <2> QED
      BY <1>1, <2>1 DEF Quiet, HasInserted, HasDrawn, HasTicket
  <1> QED
    BY <1>7, <1>8, QuietTables

LEMMA InvServicesInit ==
  ASSUME ServicesInit
  PROVE  CallsInv /\ TablesInv /\ serving \in BOOLEAN
  <1>1. \A w \in Threads : run[w] = Idle /\ run[w].call = "none" /\ run[w].conn = "none"
    BY DEF ServicesInit, Idle
  <1>2. Undrawn = {} /\ \A c \in Categories : Creating(c) = {}
    BY <1>1 DEF Undrawn, Creating
  <1>3. IsFiniteSet({}) /\ Cardinality({}) = 0
    BY FS_EmptySet
  <1>4. CallsInv
    <2>1. CallsAtStatement
      BY <1>1 DEF CallsAtStatement, Tools, ServiceCalls
    <2>2. run \in [Threads -> Run]
      BY IdleIsRun DEF ServicesInit
    <2>3. ConnectionsAccounted
      BY <1>1, <1>3, BoundsAssumption DEF ServicesInit, ConnectionsAccounted
    <2> QED
      BY <1>3, <2>1, <2>2, <2>3 DEF CallsInv, ServicesInit
  <1>5. Registrations /\ Tickets /\ CategoriesKept
    BY <1>1 DEF ServicesInit, Registrations, Tickets, CategoriesKept, InsertedOnce, WelcomedOnce,
                TicketsDrawn, ReceiptNotOlder, ProductsHaveCategory, HasInserted, HasDrawn, HasTicket
  <1>6. Counts
    <2>1. requests = 0 /\ nextTicket = 1 /\ products = [c \in Categories |-> 0] /\ MaxRequests \in Nat
      BY BoundsAssumption DEF ServicesInit
    <2> QED
      BY <1>2, <1>3, <2>1 DEF Counts, RequestsCounted
  <1> QED
    BY <1>4, <1>5, <1>6 DEF TablesInv, ServicesInit

-----------------------------------------------------------------------------
(* The turns *)

LoopInv ==
    /\ turn \in [Turns -> Turn] /\ queue \in Seq(Item) /\ doing \in [ToolThreads -> Item \union {NoItem}]
    /\ CallsCounted /\ QueuedAwaited /\ RunningMade /\ OwnObservations

LEMMA LoopParts == TypeOK /\ CallsCounted /\ QueuedAwaited /\ RunningMade /\ OwnObservations
                     <=> ServicesTypeOK /\ LoopInv
  BY DEF TypeOK, LoopInv

\* The rounds bound the calls.
LEMMA Budget ==
  ASSUME NEW s \in 0..MaxSteps
  PROVE  /\ s * MaxCalls \in Nat /\ MaxSteps * MaxCalls \in Nat /\ MaxCalls \in Nat /\ MaxSteps \in Nat
         /\ s * MaxCalls <= MaxSteps * MaxCalls
         /\ (s + 1) * MaxCalls = s * MaxCalls + MaxCalls
  <1>1. s \in Nat /\ MaxSteps \in Nat /\ MaxCalls \in Nat /\ s <= MaxSteps
    BY StepsAssumption
  <1>2. s * MaxCalls \in Nat /\ MaxSteps * MaxCalls \in Nat
    BY <1>1
  <1>3. MaxSteps - s \in Nat
    BY <1>1
  <1>4. (MaxSteps - s) * MaxCalls \in Nat
    BY <1>1, <1>3
  <1>5. MaxSteps * MaxCalls = s * MaxCalls + (MaxSteps - s) * MaxCalls
    BY <1>1
  <1>6. s * MaxCalls <= MaxSteps * MaxCalls
    BY <1>2, <1>4, <1>5
  <1>7. (s + 1) * MaxCalls = s * MaxCalls + MaxCalls
    BY <1>1
  <1> QED
    BY <1>1, <1>2, <1>6, <1>7

LEMMA TurnShape ==
  ASSUME LoopInv, NEW t \in Turns
  PROVE  /\ turn[t].phase \in {"llm", "calling", "waiting", "ended"} /\ turn[t].step \in 0..MaxSteps
         /\ turn[t].calls \in Seq(Tools \union {"unknown"}) /\ turn[t].seen \in Seq(Observation)
         /\ Len(turn[t].calls) \in Nat /\ Len(turn[t].seen) \in Nat
         /\ turn[t].calls # <<>> => /\ Len(turn[t].calls) > 0
                                   /\ CallNumber(t) \in 1..(MaxSteps * MaxCalls)
  <1>1. /\ turn[t].phase \in {"llm", "calling", "waiting", "ended"} /\ turn[t].step \in 0..MaxSteps
        /\ turn[t].calls \in Seq(Tools \union {"unknown"}) /\ turn[t].seen \in Seq(Observation)
    BY DEF LoopInv, Turn
  <1>2. /\ Len(turn[t].calls) \in Nat /\ Len(turn[t].seen) \in Nat
        /\ turn[t].calls # <<>> => Len(turn[t].calls) > 0
    BY <1>1, EmptySeq, LenProperties
  <1>3. Len(turn[t].seen) + Len(turn[t].calls) <= turn[t].step * MaxCalls
    BY DEF LoopInv, CallsCounted
  <1>4. turn[t].step * MaxCalls <= MaxSteps * MaxCalls /\ turn[t].step * MaxCalls \in Nat /\ MaxSteps * MaxCalls \in Nat
    BY <1>1, Budget
  <1> DEFINE a == turn[t].step * MaxCalls
             b == MaxSteps * MaxCalls
             n == Len(turn[t].seen)
             m == Len(turn[t].calls)
  <1> HIDE DEF a, b, n, m
  <1>5. n \in Nat /\ m \in Nat /\ a \in Nat /\ b \in Nat /\ n + m <= a /\ a <= b
    BY <1>2, <1>3, <1>4 DEF a, b, n, m
  <1>6. m > 0 => n + 1 \in 1..b
    BY <1>5
  <1> QED
    BY <1>1, <1>2, <1>6 DEF a, b, n, m, CallNumber

\* A turn with the outcome of a call.
Observed(r, o) == [r EXCEPT !.phase = "calling", !.calls = Tail(@), !.seen = Append(@, o)]

\* What a call's outcome does to its turn.
LEMMA ObserveEffect ==
  ASSUME LoopInv, NEW t \in Turns, turn[t].phase \in {"calling", "waiting"}, turn[t].calls # <<>>,
         NEW kind \in {"data", "error", "timeout", "unknown"}, Observe(t, CallNumber(t), t, kind)
  PROVE  /\ turn' \in [Turns -> Turn]
         /\ \A u \in Turns \ {t} : turn'[u] = turn[u]
         /\ turn'[t].phase = "calling" /\ Len(turn'[t].seen) = Len(turn[t].seen) + 1
         /\ CallsCounted' /\ OwnObservations'
  <1> DEFINE new == [n |-> CallNumber(t), user |-> t, kind |-> kind]
             r == Observed(turn[t], new)
  <1>1. /\ CallNumber(t) \in 1..(MaxSteps * MaxCalls)
        /\ turn[t].calls \in Seq(Tools \union {"unknown"}) /\ turn[t].seen \in Seq(Observation)
        /\ Len(turn[t].calls) \in Nat /\ Len(turn[t].seen) \in Nat /\ Len(turn[t].calls) > 0
    BY TurnShape
  <1>2. new \in Observation /\ new.n = CallNumber(t) /\ new.user = t
    BY <1>1 DEF Observation
  <1>3. turn' = [turn EXCEPT ![t] = r]
    BY DEF Observe, Observed
  <1> HIDE DEF new
  <1>4. /\ Tail(turn[t].calls) \in Seq(Tools \union {"unknown"})
        /\ Len(Tail(turn[t].calls)) = Len(turn[t].calls) - 1
    BY <1>1, HeadTailProperties
  <1>5. /\ Append(turn[t].seen, new) \in Seq(Observation)
        /\ Len(Append(turn[t].seen, new)) = Len(turn[t].seen) + 1
        /\ \A i \in 1..Len(turn[t].seen) : Append(turn[t].seen, new)[i] = turn[t].seen[i]
        /\ Append(turn[t].seen, new)[Len(turn[t].seen) + 1] = new
    BY <1>1, <1>2, AppendProperties
  <1>6. /\ r \in Turn /\ r.phase = "calling" /\ r.step = turn[t].step
        /\ r.calls = Tail(turn[t].calls) /\ r.seen = Append(turn[t].seen, new)
    BY <1>4, <1>5 DEF LoopInv, Turn, Observed
  <1> HIDE DEF r
  <1>7. /\ turn' \in [Turns -> Turn] /\ turn'[t] = r
        /\ \A u \in Turns \ {t} : turn'[u] = turn[u]
    BY <1>3, <1>6 DEF LoopInv
  <1>8. CallsCounted'
    <2>1. Len(r.seen) + Len(r.calls) = Len(turn[t].seen) + Len(turn[t].calls)
      <3> DEFINE n == Len(turn[t].seen)
                 m == Len(turn[t].calls)
      <3> HIDE DEF n, m
      <3>1. n \in Nat /\ m \in Nat /\ Len(r.seen) = n + 1 /\ Len(r.calls) = m - 1
        BY <1>1, <1>4, <1>5, <1>6 DEF n, m
      <3>2. Len(r.seen) + Len(r.calls) = n + m
        BY <3>1
      <3> QED
        BY <3>2 DEF n, m
    <2>2. Len(turn[t].seen) + Len(turn[t].calls) <= turn[t].step * MaxCalls
      BY DEF LoopInv, CallsCounted
    <2>3. Len(r.seen) + Len(r.calls) <= r.step * MaxCalls
      BY <1>6, <2>1, <2>2
    <2> QED
      BY <1>6, <1>7, <2>3 DEF LoopInv, CallsCounted, Waiting
  <1>9. OwnObservations'
    <2>1. ASSUME NEW i \in 1..Len(r.seen)
          PROVE  r.seen[i].n = i /\ r.seen[i].user = t
      <3>1. CASE i \in 1..Len(turn[t].seen)
        BY <1>5, <1>6, <3>1 DEF LoopInv, OwnObservations
      <3>2. CASE i = Len(turn[t].seen) + 1
        BY <1>2, <1>5, <1>6, <3>2 DEF CallNumber
      <3> QED
        BY <1>1, <1>5, <1>6, <2>1, <3>1, <3>2
    <2> QED
      BY <1>7, <2>1 DEF LoopInv, OwnObservations
  <1> QED
    BY <1>5, <1>6, <1>7, <1>8, <1>9

LEMMA QueueShape ==
  ASSUME LoopInv
  PROVE  /\ DOMAIN queue = 1..Len(queue) /\ Len(queue) \in Nat
         /\ \A i \in DOMAIN queue :
               /\ queue[i] \in Item /\ queue[i].turn \in Turns /\ queue[i].tool \in Tools
               /\ Waiting(queue[i].turn)
  <1>1. DOMAIN queue = 1..Len(queue) /\ Len(queue) \in Nat /\ \A i \in 1..Len(queue) : queue[i] \in Item
    BY LenProperties, ElementOfSeq DEF LoopInv
  <1> QED
    BY <1>1 DEF LoopInv, QueuedAwaited, Awaited, Item

\* A turn that does not wait, or no longer waits, leaves the other turns' calls
\* as they are: nothing of it queues, and what still runs for it is of a call
\* before its next.
LEMMA KeepItems ==
  ASSUME LoopInv, NEW t \in Turns, turn' \in [Turns -> Turn],
         \A u \in Turns \ {t} : turn'[u] = turn[u],
         turn'[t].phase # "waiting",
         \A w \in ToolThreads : doing'[w] # NoItem /\ doing'[w].turn = t /\ turn'[t].phase # "ended"
                                  => doing'[w].n < Len(turn'[t].seen) + 1,
         \A j \in DOMAIN queue' : \E k \in DOMAIN queue : queue'[j] = queue[k] /\ queue[k].turn # t,
         \A i, j \in DOMAIN queue' : queue'[i].turn = queue'[j].turn => i = j,
         \A w \in ToolThreads : doing'[w] \in {doing[w], NoItem}
  PROVE  QueuedAwaited' /\ RunningMade'
  <1>1. ASSUME NEW j \in DOMAIN queue'
        PROVE  Awaited(queue[j])' /\ queue'[j].user = queue'[j].turn
    <2>1. PICK k \in DOMAIN queue : queue'[j] = queue[k] /\ queue[k].turn # t
      OBVIOUS
    <2>2. /\ Awaited(queue[k]) /\ queue[k].user = queue[k].turn /\ queue[k].turn \in Turns
          /\ turn'[queue[k].turn] = turn[queue[k].turn]
      BY <2>1, QueueShape DEF LoopInv, QueuedAwaited
    <2> QED
      BY <2>1, <2>2 DEF Awaited, Waiting, CallNumber
  <1>2. QueuedAwaited'
    <2>1. \A i, j \in DOMAIN queue' : queue'[j].turn = queue'[i].turn => j = i
      OBVIOUS
    <2> QED
      BY <1>1, <2>1 DEF QueuedAwaited
  <1>3. ASSUME NEW w \in ToolThreads, doing'[w] # NoItem, NEW i, i = doing'[w]
        PROVE  /\ i.user = i.turn
               /\ turn'[i.turn].phase = "waiting" => i.n <= CallNumber(i.turn)'
               /\ turn'[i.turn].phase \in {"llm", "calling"} => i.n < CallNumber(i.turn)'
               /\ Awaited(i)' => \A j \in DOMAIN queue' : queue'[j].turn # i.turn
    <2>1. /\ doing[w] = i /\ i # NoItem /\ i \in Item /\ i.turn \in Turns /\ i.user = i.turn
          /\ turn[i.turn].phase = "waiting" => i.n <= CallNumber(i.turn)
          /\ turn[i.turn].phase \in {"llm", "calling"} => i.n < CallNumber(i.turn)
          /\ Awaited(i) => \A j \in DOMAIN queue : queue[j].turn # i.turn
      <3>1. doing[w] = i /\ i # NoItem /\ i \in Item /\ i.turn \in Turns
        BY <1>3 DEF LoopInv, Item
      <3> QED
        BY <3>1 DEF LoopInv, RunningMade
    <2>2. CASE i.turn = t
      BY <1>3, <2>1, <2>2 DEF CallNumber, Awaited, Waiting
    <2>3. CASE i.turn # t
      <3>1. turn'[i.turn] = turn[i.turn]
        BY <2>1, <2>3
      <3>2. Awaited(i)' <=> Awaited(i)
        BY <3>1 DEF Awaited, Waiting, CallNumber
      <3>3. CallNumber(i.turn)' = CallNumber(i.turn)
        BY <3>1 DEF CallNumber
      <3>4. ASSUME Awaited(i)', NEW j \in DOMAIN queue'
            PROVE  queue'[j].turn # i.turn
        BY <2>1, <3>2, <3>4
      <3> QED
        BY <2>1, <3>1, <3>3, <3>4
    <2> QED
      BY <2>2, <2>3
  <1>4. RunningMade'
    BY <1>3 DEF RunningMade
  <1> QED
    BY <1>2, <1>4

\* Withdrawing leaves no call of the turn in the queue, and the others in their order.
LEMMA WithdrawnQueue ==
  ASSUME LoopInv, NEW t \in Turns, NEW q, q = Withdrawn(t)
  PROVE  /\ q \in Seq(Item)
         /\ \A j \in DOMAIN q : \E k \in DOMAIN queue : q[j] = queue[k] /\ queue[k].turn # t
         /\ \A i, j \in DOMAIN q : q[i].turn = q[j].turn => i = j
  <1> DEFINE queued == {i \in DOMAIN queue : queue[i].turn = t}
  <1>1. /\ DOMAIN queue = 1..Len(queue) /\ Len(queue) \in Nat /\ queue \in Seq(Item)
        /\ \A i, j \in DOMAIN queue : queue[i].turn = queue[j].turn => i = j
    BY QueueShape DEF LoopInv, QueuedAwaited
  <1>2. CASE queued = {}
    <2>1. q = queue
      BY <1>2 DEF Withdrawn
    <2> QED
      BY <1>1, <1>2, <2>1
  <1>3. CASE queued # {}
    <2>1. PICK x \in queued : q = RemoveAt(queue, x)
      BY <1>3 DEF Withdrawn
    <2>2. x \in 1..Len(queue) /\ queue[x].turn = t
      BY <1>1
    <2>3. q = SubSeq(queue, 1, x - 1) \o SubSeq(queue, x + 1, Len(queue))
      BY <2>1 DEF RemoveAt
    <2>4. /\ q \in Seq(Item) /\ Len(q) = Len(queue) - 1
          /\ \A j \in 1..(Len(queue) - 1) : q[j] = IF j < x THEN queue[j] ELSE queue[j + 1]
      <3>1. queue \in Seq(Item) /\ x \in 1..Len(queue)
        BY <1>1, <2>2
      <3> HIDE DEF queued
      <3> DEFINE cut == SubSeq(queue, 1, x - 1) \o SubSeq(queue, x + 1, Len(queue))
      <3>2. /\ cut \in Seq(Item) /\ Len(cut) = Len(queue) - 1
            /\ \A j \in 1..(Len(queue) - 1) : cut[j] = IF j < x THEN queue[j] ELSE queue[j + 1]
        BY <3>1, CutOut
      <3> QED
        BY <2>3, <3>2
    <2>5. DOMAIN q = 1..(Len(queue) - 1)
      BY <2>4, LenProperties
    <2> DEFINE n == Len(queue)
               f(j) == IF j < x THEN j ELSE j + 1
    <2> HIDE DEF n
    <2>6. n \in Nat /\ x \in 1..n /\ DOMAIN queue = 1..n /\ DOMAIN q = 1..(n - 1)
      BY <1>1, <2>2, <2>5 DEF n
    <2>7. \A j \in 1..(n - 1) : f(j) \in 1..n /\ f(j) # x
      BY <2>6
    <2>8. \A i, j \in 1..(n - 1) : f(i) = f(j) => i = j
      BY <2>6
    <2>9. \A j \in 1..(n - 1) : q[j] = queue[f(j)]
      BY <2>4 DEF n
    <2> HIDE DEF f
    <2>10. \A i, j \in 1..n : queue[i].turn = queue[j].turn => i = j
      BY <1>1, <2>6
    <2>11. \A j \in 1..(n - 1) : queue[f(j)].turn # t
      BY <2>2, <2>6, <2>7, <2>10
    <2>12. \A i, j \in 1..(n - 1) : q[i].turn = q[j].turn => i = j
      BY <2>7, <2>8, <2>9, <2>10
    <2>13. \A j \in 1..(n - 1) : \E k \in 1..n : q[j] = queue[k] /\ queue[k].turn # t
      BY <2>7, <2>9, <2>11
    <2> QED
      BY <2>4, <2>6, <2>12, <2>13
  <1> QED
    BY <1>2, <1>3

-----------------------------------------------------------------------------
(* One lemma for each step of a turn *)

Phased(r, p) == [r EXCEPT !.phase = p]
Asked(r, calls) == [r EXCEPT !.phase = "calling", !.step = @ + 1, !.calls = calls]

LEMMA PhaseEffect ==
  ASSUME LoopInv, NEW t \in Turns, NEW p \in {"llm", "waiting", "ended"},
         p = "llm" => turn[t].calls = <<>>, p = "waiting" => turn[t].calls # <<>>,
         turn' = [turn EXCEPT ![t].phase = p]
  PROVE  /\ turn' \in [Turns -> Turn]
         /\ \A u \in Turns \ {t} : turn'[u] = turn[u]
         /\ turn'[t].phase = p /\ turn'[t].seen = turn[t].seen /\ turn'[t].calls = turn[t].calls
         /\ CallsCounted' /\ OwnObservations'
  <1> DEFINE r == Phased(turn[t], p)
  <1>1. turn' = [turn EXCEPT ![t] = r]
    BY DEF Phased
  <1>2. /\ r \in Turn /\ r.phase = p /\ r.step = turn[t].step
        /\ r.calls = turn[t].calls /\ r.seen = turn[t].seen
    BY DEF LoopInv, Turn, Phased
  <1> HIDE DEF r
  <1>3. /\ turn' \in [Turns -> Turn] /\ turn'[t] = r
        /\ \A u \in Turns \ {t} : turn'[u] = turn[u]
    BY <1>1, <1>2 DEF LoopInv
  <1>4. CallsCounted'
    BY <1>2, <1>3 DEF LoopInv, CallsCounted, Waiting
  <1>5. OwnObservations'
    BY <1>2, <1>3 DEF LoopInv, OwnObservations
  <1> QED
    BY <1>2, <1>3, <1>4, <1>5

\* A turn that does not wait has no call in the queue.
LEMMA NothingQueued ==
  ASSUME LoopInv, NEW t \in Turns, turn[t].phase # "waiting"
  PROVE  /\ \A k \in DOMAIN queue : queue[k].turn # t
         /\ \A i, j \in DOMAIN queue : queue[i].turn = queue[j].turn => i = j
  <1>1. \A k \in DOMAIN queue : queue[k].turn # t
    BY QueueShape DEF Waiting
  <1> QED
    BY <1>1 DEF LoopInv, QueuedAwaited

\* What runs for a turn is one of its calls so far.
LEMMA CallsRun ==
  ASSUME LoopInv, NEW w \in ToolThreads, doing[w] # NoItem
  PROVE  /\ doing[w] \in Item /\ doing[w].turn \in Turns /\ doing[w].user = doing[w].turn
         /\ doing[w].n \in Int
         /\ turn[doing[w].turn].phase = "waiting" => doing[w].n < Len(turn[doing[w].turn].seen) + 2
         /\ turn[doing[w].turn].phase \in {"llm", "calling"} => doing[w].n < Len(turn[doing[w].turn].seen) + 1
  <1>1. doing[w] \in Item /\ doing[w].turn \in Turns /\ doing[w].n \in 1..(MaxSteps * MaxCalls)
    BY DEF LoopInv, Item
  <1>2. MaxSteps * MaxCalls \in Int
    BY StepsAssumption
  <1>3. doing[w].n \in Int
    BY <1>1, <1>2
  <1>4. /\ doing[w].user = doing[w].turn
        /\ turn[doing[w].turn].phase = "waiting" => doing[w].n <= Len(turn[doing[w].turn].seen) + 1
        /\ turn[doing[w].turn].phase \in {"llm", "calling"} => doing[w].n < Len(turn[doing[w].turn].seen) + 1
    BY DEF LoopInv, RunningMade, CallNumber
  <1> DEFINE n == Len(turn[doing[w].turn].seen)
             m == doing[w].n
  <1>5. n \in Nat
    BY <1>1, TurnShape
  <1>6. m <= n + 1 => m < n + 2
    <2> HIDE DEF n, m
    <2>1. m \in Int
      BY <1>3 DEF m
    <2> QED
      BY <1>5, <2>1
  <1> QED
    BY <1>1, <1>3, <1>4, <1>6

LEMMA InvPhase ==
  ASSUME LoopInv, NEW t \in Turns, Answer(t) \/ GiveUp(t) \/ NextRound(t)
  PROVE  LoopInv'
  <1>1. PICK p \in {"llm", "ended"} :
          /\ turn' = [turn EXCEPT ![t].phase = p] /\ turn[t].phase \in {"llm", "calling"}
          /\ p = "llm" => turn[t].calls = <<>>
    BY DEF Answer, GiveUp, NextRound
  <1>2. queue' = queue /\ doing' = doing
    BY DEF Answer, GiveUp, NextRound
  <1>3. /\ turn' \in [Turns -> Turn]
        /\ \A u \in Turns \ {t} : turn'[u] = turn[u]
        /\ turn'[t].phase = p /\ turn'[t].seen = turn[t].seen
        /\ CallsCounted' /\ OwnObservations'
    BY <1>1, PhaseEffect
  <1>4. \A w \in ToolThreads : doing'[w] # NoItem /\ doing'[w].turn = t
                                => doing'[w].n < Len(turn'[t].seen) + 1
    BY <1>1, <1>2, <1>3, CallsRun
  <1>5. QueuedAwaited' /\ RunningMade'
    BY <1>1, <1>2, <1>3, <1>4, NothingQueued, KeepItems
  <1> QED
    BY <1>2, <1>3, <1>5 DEF LoopInv

LEMMA InvAskForTools ==
  ASSUME LoopInv, NEW t \in Turns, AskForTools(t)
  PROVE  LoopInv'
  <1>1. PICK calls \in BoundedSeq(Tools \union {"unknown"}, MaxCalls) \ {<<>>} :
          turn' = [turn EXCEPT ![t].phase = "calling", ![t].step = @ + 1, ![t].calls = calls]
    BY DEF AskForTools
  <1>2. turn[t].phase = "llm" /\ turn[t].step < MaxSteps /\ queue' = queue /\ doing' = doing
    BY DEF AskForTools, RoundsLeft
  <1>3. calls \in Seq(Tools \union {"unknown"}) /\ Len(calls) \in Nat /\ Len(calls) <= MaxCalls
    <2>1. PICK m \in 0..MaxCalls : calls \in [1..m -> Tools \union {"unknown"}]
      BY DEF BoundedSeq, SeqOf
    <2>2. m \in Nat /\ m <= MaxCalls
      BY <2>1, StepsAssumption
    <2>3. calls \in Seq(Tools \union {"unknown"}) /\ Len(calls) = m
      BY <2>1, <2>2, IsASeq
    <2> QED
      BY <2>2, <2>3
  <1> DEFINE r == Asked(turn[t], calls)
  <1>4. turn' = [turn EXCEPT ![t] = r]
    BY <1>1 DEF Asked
  <1>5. /\ turn[t].step \in 0..MaxSteps /\ turn[t].step + 1 \in 0..MaxSteps
        /\ Len(turn[t].seen) \in Nat
    BY <1>2, StepsAssumption, TurnShape
  <1>6. /\ r \in Turn /\ r.phase = "calling" /\ r.step = turn[t].step + 1
        /\ r.calls = calls /\ r.seen = turn[t].seen
    BY <1>3, <1>5 DEF LoopInv, Turn, Asked
  <1> HIDE DEF r
  <1>7. /\ turn' \in [Turns -> Turn] /\ turn'[t] = r
        /\ \A u \in Turns \ {t} : turn'[u] = turn[u]
    BY <1>4, <1>6 DEF LoopInv
  <1>8. CallsCounted'
    <2>1. turn[t].calls = <<>> /\ Len(turn[t].seen) + Len(turn[t].calls) <= turn[t].step * MaxCalls
      BY <1>2 DEF LoopInv, CallsCounted
    <2> DEFINE n == Len(turn[t].seen)
               m == Len(calls)
               a == turn[t].step * MaxCalls
    <2>2. n <= a /\ n \in Nat /\ a \in Nat /\ MaxCalls \in Nat /\ r.step * MaxCalls = a + MaxCalls
      <3>1. Len(turn[t].calls) = 0
        BY <2>1
      <3>2. a \in Nat /\ MaxCalls \in Nat /\ r.step * MaxCalls = a + MaxCalls
        BY <1>5, <1>6, Budget
      <3> HIDE DEF a
      <3> QED
        BY <1>5, <2>1, <3>1, <3>2 DEF a
    <2>3. n + m <= r.step * MaxCalls
      <3> HIDE DEF n, a, m
      <3>1. m \in Nat /\ m <= MaxCalls
        BY <1>3 DEF m
      <3> QED
        BY <2>2, <3>1
    <2> QED
      BY <1>6, <1>7, <2>3 DEF LoopInv, CallsCounted, Waiting
  <1>9. OwnObservations'
    BY <1>6, <1>7 DEF LoopInv, OwnObservations
  <1>10. \A w \in ToolThreads : doing'[w] # NoItem /\ doing'[w].turn = t
                                => doing'[w].n < Len(turn'[t].seen) + 1
    BY <1>2, <1>6, <1>7, CallsRun
  <1>11. QueuedAwaited' /\ RunningMade'
    BY <1>2, <1>6, <1>7, <1>10, NothingQueued, KeepItems
  <1> QED
    BY <1>2, <1>7, <1>8, <1>9, <1>11 DEF LoopInv

\* What every step that gives a turn an outcome keeps.
LEMMA InvUnknownTool ==
  ASSUME LoopInv, NEW t \in Turns, UnknownTool(t)
  PROVE  LoopInv'
  <1>1. /\ turn[t].phase = "calling" /\ turn[t].calls # <<>>
        /\ Observe(t, CallNumber(t), t, "unknown") /\ queue' = queue /\ doing' = doing
    BY DEF UnknownTool
  <1>2. /\ turn' \in [Turns -> Turn]
        /\ \A u \in Turns \ {t} : turn'[u] = turn[u]
        /\ turn'[t].phase = "calling" /\ Len(turn'[t].seen) = Len(turn[t].seen) + 1
        /\ CallsCounted' /\ OwnObservations'
    BY <1>1, ObserveEffect
  <1>3. ASSUME NEW w \in ToolThreads, doing'[w] # NoItem, doing'[w].turn = t
        PROVE  doing'[w].n < Len(turn'[t].seen) + 1
    <2> DEFINE n == Len(turn[t].seen)
               m == doing[w].n
    <2>1. m \in Int /\ m < n + 1 /\ n \in Nat
      BY <1>1, <1>3, CallsRun, TurnShape
    <2> HIDE DEF n, m
    <2>2. m < (n + 1) + 1
      BY <2>1
    <2> QED
      BY <1>1, <1>2, <2>2 DEF n, m
  <1>4. QueuedAwaited' /\ RunningMade'
    BY <1>1, <1>2, <1>3, NothingQueued, KeepItems
  <1> QED
    BY <1>1, <1>2, <1>4 DEF LoopInv

LEMMA InvTimeout ==
  ASSUME LoopInv, NEW t \in Turns, Timeout(t)
  PROVE  LoopInv'
  <1>1. /\ turn[t].phase = "waiting" /\ turn[t].calls # <<>>
        /\ Observe(t, CallNumber(t), t, "timeout") /\ queue' = Withdrawn(t) /\ doing' = doing
    BY DEF Timeout, Waiting, LoopInv, CallsCounted
  <1>2. /\ turn' \in [Turns -> Turn]
        /\ \A u \in Turns \ {t} : turn'[u] = turn[u]
        /\ turn'[t].phase = "calling" /\ Len(turn'[t].seen) = Len(turn[t].seen) + 1
        /\ CallsCounted' /\ OwnObservations'
    BY <1>1, ObserveEffect
  <1>3. ASSUME NEW w \in ToolThreads, doing'[w] # NoItem, doing'[w].turn = t
        PROVE  doing'[w].n < Len(turn'[t].seen) + 1
    <2> DEFINE n == Len(turn[t].seen)
               m == doing[w].n
    <2>1. m \in Int /\ m < n + 2 /\ n \in Nat
      BY <1>1, <1>3, CallsRun, TurnShape
    <2> HIDE DEF n, m
    <2>2. m < (n + 1) + 1
      BY <2>1
    <2> QED
      BY <1>1, <1>2, <2>2 DEF n, m
  <1>4. /\ queue' \in Seq(Item)
        /\ \A j \in DOMAIN queue' : \E k \in DOMAIN queue : queue'[j] = queue[k] /\ queue[k].turn # t
        /\ \A i, j \in DOMAIN queue' : queue'[i].turn = queue'[j].turn => i = j
    <2> DEFINE q == Withdrawn(t)
    <2> HIDE DEF q
    <2>1. /\ q \in Seq(Item)
          /\ \A j \in DOMAIN q : \E k \in DOMAIN queue : q[j] = queue[k] /\ queue[k].turn # t
          /\ \A i, j \in DOMAIN q : q[i].turn = q[j].turn => i = j
      BY WithdrawnQueue DEF q
    <2> QED
      BY <1>1, <2>1 DEF q
  <1>5. QueuedAwaited' /\ RunningMade'
    BY <1>1, <1>2, <1>3, <1>4, KeepItems
  <1> QED
    BY <1>1, <1>2, <1>4, <1>5 DEF LoopInv

LEMMA InvDisconnect ==
  ASSUME LoopInv, NEW t \in Turns, Disconnect(t)
  PROVE  LoopInv'
  <1>1. turn' = [turn EXCEPT ![t].phase = "ended"] /\ queue' = Withdrawn(t) /\ doing' = doing
    BY DEF Disconnect
  <1>2. /\ turn' \in [Turns -> Turn]
        /\ \A u \in Turns \ {t} : turn'[u] = turn[u]
        /\ turn'[t].phase = "ended"
        /\ CallsCounted' /\ OwnObservations'
    BY <1>1, PhaseEffect
  <1>3. /\ queue' \in Seq(Item)
        /\ \A j \in DOMAIN queue' : \E k \in DOMAIN queue : queue'[j] = queue[k] /\ queue[k].turn # t
        /\ \A i, j \in DOMAIN queue' : queue'[i].turn = queue'[j].turn => i = j
    <2> DEFINE q == Withdrawn(t)
    <2> HIDE DEF q
    <2>1. /\ q \in Seq(Item)
          /\ \A j \in DOMAIN q : \E k \in DOMAIN queue : q[j] = queue[k] /\ queue[k].turn # t
          /\ \A i, j \in DOMAIN q : q[i].turn = q[j].turn => i = j
      BY WithdrawnQueue DEF q
    <2> QED
      BY <1>1, <2>1 DEF q
  <1>4. QueuedAwaited' /\ RunningMade'
    BY <1>1, <1>2, <1>3, KeepItems
  <1> QED
    BY <1>1, <1>2, <1>3, <1>4 DEF LoopInv

LEMMA InvCallTool ==
  ASSUME LoopInv, NEW t \in Turns, CallTool(t)
  PROVE  LoopInv'
  <1> DEFINE item == [turn |-> t, n |-> CallNumber(t), tool |-> Head(turn[t].calls), user |-> t]
  <1>1. /\ turn[t].phase = "calling" /\ turn[t].calls # <<>> /\ Head(turn[t].calls) \in Tools
        /\ queue' = Append(queue, item) /\ turn' = [turn EXCEPT ![t].phase = "waiting"] /\ doing' = doing
    BY DEF CallTool, Injected
  <1>2. /\ turn' \in [Turns -> Turn]
        /\ \A u \in Turns \ {t} : turn'[u] = turn[u]
        /\ turn'[t].phase = "waiting" /\ turn'[t].seen = turn[t].seen
        /\ CallsCounted' /\ OwnObservations'
    BY <1>1, PhaseEffect
  <1>3. CallNumber(t) \in 1..(MaxSteps * MaxCalls) /\ Len(turn[t].seen) \in Nat
    BY <1>1, TurnShape
  <1>4. item \in Item /\ item.turn = t /\ item.n = CallNumber(t) /\ item.user = t
    BY <1>1, <1>3 DEF Item
  <1> HIDE DEF item
  <1>5. /\ queue' \in Seq(Item) /\ DOMAIN queue' = 1..(Len(queue) + 1)
        /\ DOMAIN queue = 1..Len(queue) /\ Len(queue) \in Nat
        /\ \A j \in 1..Len(queue) : queue'[j] = queue[j]
        /\ queue'[Len(queue) + 1] = item
    BY <1>1, <1>4, AppendProperties, LenProperties DEF LoopInv
  <1>6. /\ \A k \in DOMAIN queue : queue[k].turn # t
        /\ \A i, j \in DOMAIN queue : queue[i].turn = queue[j].turn => i = j
    BY <1>1, NothingQueued
  <1>7. ASSUME NEW j \in DOMAIN queue
        PROVE  /\ Awaited(queue[j])' /\ queue[j].user = queue[j].turn
    <2>1. queue[j].turn \in Turns /\ queue[j].turn # t
      BY <1>6, QueueShape
    <2>2. turn'[queue[j].turn] = turn[queue[j].turn] /\ Awaited(queue[j]) /\ queue[j].user = queue[j].turn
      BY <1>2, <2>1 DEF LoopInv, QueuedAwaited
    <2> QED
      BY <2>2, <1>5 DEF Awaited, Waiting, CallNumber
  <1>8. QueuedAwaited'
    <2>1. ASSUME NEW j \in DOMAIN queue'
          PROVE  Awaited(queue[j])' /\ queue'[j].user = queue'[j].turn
      <3>1. CASE j \in DOMAIN queue
        BY <1>5, <1>7, <3>1
      <3>2. CASE j = Len(queue) + 1
        BY <1>2, <1>4, <1>5, <3>2 DEF Awaited, Waiting, CallNumber
      <3> QED
        BY <1>5, <3>1, <3>2
    <2>2. ASSUME NEW i \in DOMAIN queue', NEW j \in DOMAIN queue', queue'[j].turn = queue'[i].turn
          PROVE  j = i
      <3>1. i \in DOMAIN queue \/ i = Len(queue) + 1
        BY <1>5
      <3>2. j \in DOMAIN queue \/ j = Len(queue) + 1
        BY <1>5
      <3> QED
        BY <1>4, <1>5, <1>6, <2>2, <3>1, <3>2
    <2> QED
      BY <2>1, <2>2 DEF QueuedAwaited
  <1>9. ASSUME NEW w \in ToolThreads, doing'[w] # NoItem, NEW i, i = doing'[w]
        PROVE  /\ i.user = i.turn
               /\ turn'[i.turn].phase = "waiting" => i.n <= CallNumber(i.turn)'
               /\ turn'[i.turn].phase \in {"llm", "calling"} => i.n < CallNumber(i.turn)'
               /\ Awaited(i)' => \A j \in DOMAIN queue' : queue'[j].turn # i.turn
    <2>1. /\ doing[w] = i /\ i # NoItem /\ i \in Item /\ i.turn \in Turns /\ i.user = i.turn /\ i.n \in Int
          /\ turn[i.turn].phase = "waiting" => i.n <= CallNumber(i.turn)
          /\ turn[i.turn].phase \in {"llm", "calling"} => i.n < CallNumber(i.turn)
          /\ Awaited(i) => \A j \in DOMAIN queue : queue[j].turn # i.turn
      <3>1. doing[w] = i /\ i # NoItem /\ i \in Item /\ i.turn \in Turns /\ i.user = i.turn /\ i.n \in Int
        BY <1>1, <1>9, CallsRun
      <3> QED
        BY <3>1 DEF LoopInv, RunningMade
    <2>2. CASE i.turn = t
      <3>1. CallNumber(t)' = CallNumber(t) /\ CallNumber(t) \in Int
        BY <1>2, <1>3 DEF CallNumber
      <3>2. i.n < CallNumber(t)
        BY <1>1, <2>1, <2>2
      <3>3. i.n <= CallNumber(t) /\ i.n # CallNumber(t)
        <4> DEFINE a == i.n
                   b == CallNumber(t)
        <4>1. a \in Int /\ b \in Int /\ a < b
          BY <2>1, <3>1, <3>2
        <4> HIDE DEF a, b
        <4>2. a <= b /\ a # b
          BY <4>1
        <4> QED
          BY <4>2 DEF a, b
      <3>4. ~Awaited(i)'
        BY <2>2, <3>1, <3>3 DEF Awaited
      <3> QED
        BY <1>2, <2>1, <2>2, <3>1, <3>3, <3>4
    <2>3. CASE i.turn # t
      <3>1. turn'[i.turn] = turn[i.turn]
        BY <1>2, <2>1, <2>3
      <3>2. Awaited(i)' <=> Awaited(i)
        BY <3>1 DEF Awaited, Waiting, CallNumber
      <3>3. CallNumber(i.turn)' = CallNumber(i.turn)
        BY <3>1 DEF CallNumber
      <3>4. ASSUME Awaited(i)', NEW j \in DOMAIN queue'
            PROVE  queue'[j].turn # i.turn
        BY <1>4, <1>5, <2>1, <2>3, <3>2, <3>4
      <3> QED
        BY <2>1, <3>1, <3>3, <3>4
    <2> QED
      BY <2>2, <2>3
  <1>10. RunningMade'
    BY <1>9 DEF RunningMade
  <1> QED
    BY <1>1, <1>2, <1>5, <1>8, <1>10 DEF LoopInv

-----------------------------------------------------------------------------
(* One lemma for each step of the executor *)

\* The thread takes the first call of the queue; its turn waits for it.
LEMMA InvTakeCall ==
  ASSUME LoopInv, NEW w \in ToolThreads, queue # <<>>, UNCHANGED turn,
         doing' = [doing EXCEPT ![w] = Head(queue)], queue' = Tail(queue)
  PROVE  LoopInv' /\ Head(queue) \in Item /\ Awaited(Head(queue))
  <1>1. /\ queue \in Seq(Item) /\ DOMAIN queue = 1..Len(queue) /\ Len(queue) \in Nat
        /\ 1 \in DOMAIN queue /\ Head(queue) = queue[1] /\ queue[1] \in Item
    <2>1. queue \in Seq(Item) /\ DOMAIN queue = 1..Len(queue) /\ Len(queue) \in Nat
      BY QueueShape DEF LoopInv
    <2>2. Len(queue) > 0 /\ Head(queue) = queue[1]
      BY <2>1, EmptySeq, HeadTailProperties
    <2> QED
      BY <2>1, <2>2, QueueShape
  <1>2. /\ Tail(queue) \in Seq(Item) /\ DOMAIN Tail(queue) = 1..(Len(queue) - 1)
        /\ \A j \in 1..(Len(queue) - 1) : Tail(queue)[j] = queue[j + 1]
    <2>1. /\ Tail(queue) \in Seq(Item) /\ Len(Tail(queue)) = Len(queue) - 1
          /\ \A j \in 1..Len(Tail(queue)) : Tail(queue)[j] = queue[j + 1]
      BY <1>1, HeadTailProperties
    <2> QED
      BY <2>1, LenProperties
  <1>3. Awaited(queue[1]) /\ queue[1].user = queue[1].turn /\ queue[1].turn \in Turns
    BY <1>1, QueueShape DEF LoopInv, QueuedAwaited
  <1>4. \A j \in DOMAIN queue' : j + 1 \in DOMAIN queue /\ j + 1 # 1 /\ queue'[j] = queue[j + 1]
    BY <1>1, <1>2
  <1>5. \A i : Awaited(i)' <=> Awaited(i)
    BY DEF Awaited, Waiting, CallNumber
  <1>6. QueuedAwaited'
    <2>1. \A j \in DOMAIN queue' : Awaited(queue'[j]) /\ queue'[j].user = queue'[j].turn
      BY <1>4 DEF LoopInv, QueuedAwaited
    <2>2. ASSUME NEW i \in DOMAIN queue', NEW j \in DOMAIN queue', queue'[j].turn = queue'[i].turn
          PROVE  j = i
      <3>1. j + 1 = i + 1
        BY <1>4, <2>2 DEF LoopInv, QueuedAwaited
      <3> QED
        BY <1>1, <1>2, <3>1
    <2> QED
      BY <1>5, <2>1, <2>2 DEF QueuedAwaited
  <1>7. RunningMade'
    <2>1. /\ doing' \in [ToolThreads -> Item \union {NoItem}] /\ doing'[w] = queue[1]
          /\ \A u \in ToolThreads \ {w} : doing'[u] = doing[u]
      BY <1>1 DEF LoopInv
    <2>2. ASSUME NEW u \in ToolThreads, doing'[u] # NoItem, NEW i, i = doing'[u]
          PROVE  /\ i.user = i.turn
                 /\ turn[i.turn].phase = "waiting" => i.n <= CallNumber(i.turn)
                 /\ turn[i.turn].phase \in {"llm", "calling"} => i.n < CallNumber(i.turn)
                 /\ Awaited(i) => \A j \in DOMAIN queue' : queue'[j].turn # i.turn
      <3>1. CASE u = w
        <4>1. i = queue[1]
          BY <2>1, <2>2, <3>1
        <4>2. i.n = CallNumber(i.turn) /\ turn[i.turn].phase = "waiting" /\ i.user = i.turn
          BY <1>3, <4>1 DEF Awaited, Waiting
        <4>3. CallNumber(i.turn) \in Int
          BY <1>3, <4>1, TurnShape DEF CallNumber
        <4>4. \A j \in DOMAIN queue' : queue'[j].turn # i.turn
          BY <1>1, <1>4, <4>1 DEF LoopInv, QueuedAwaited
        <4> QED
          BY <4>2, <4>3, <4>4
      <3>2. CASE u # w
        <4>1. /\ i.user = i.turn
              /\ turn[i.turn].phase = "waiting" => i.n <= CallNumber(i.turn)
              /\ turn[i.turn].phase \in {"llm", "calling"} => i.n < CallNumber(i.turn)
              /\ Awaited(i) => \A j \in DOMAIN queue : queue[j].turn # i.turn
          BY <2>1, <2>2, <3>2 DEF LoopInv, RunningMade
        <4> QED
          BY <1>4, <4>1
      <3> QED
        BY <3>1, <3>2
    <2>3. \A i : CallNumber(i)' = CallNumber(i)
      BY DEF CallNumber
    <2> QED
      BY <1>5, <2>2, <2>3 DEF RunningMade
  <1> QED
    BY <1>1, <1>2, <1>3, <1>6, <1>7 DEF LoopInv, CallsCounted, OwnObservations, Waiting

\* The thread is free again; the turn has the outcome if it still waits for it.
LEMMA InvDelivery ==
  ASSUME LoopInv, NEW w \in ToolThreads, doing[w] # NoItem, NEW kind \in {"data", "error"},
         IF Awaited(doing[w])
         THEN Observe(doing[w].turn, doing[w].n, doing[w].user, kind)
         ELSE UNCHANGED turn,
         doing' = [doing EXCEPT ![w] = NoItem], UNCHANGED queue
  PROVE  LoopInv'
  <1>1. /\ doing' \in [ToolThreads -> Item \union {NoItem}] /\ doing'[w] = NoItem
        /\ \A u \in ToolThreads : doing'[u] \in {doing[u], NoItem}
    BY DEF LoopInv
  <1> DEFINE t == doing[w].turn
  <1>2. CASE Awaited(doing[w])
    <2>1. t \in Turns /\ doing[w].user = t /\ turn[t].phase = "waiting" /\ doing[w].n = CallNumber(t)
      BY <1>2, CallsRun DEF Awaited, Waiting
    <2>2. turn[t].calls # <<>> /\ Observe(t, CallNumber(t), t, kind)
      BY <1>2, <2>1 DEF LoopInv, CallsCounted, Waiting
    <2>3. /\ \A k \in DOMAIN queue : queue[k].turn # t
          /\ \A i, j \in DOMAIN queue : queue[i].turn = queue[j].turn => i = j
      BY <1>2 DEF LoopInv, RunningMade, QueuedAwaited
    <2> HIDE DEF t
    <2>4. /\ turn' \in [Turns -> Turn]
          /\ \A u \in Turns \ {t} : turn'[u] = turn[u]
          /\ turn'[t].phase = "calling" /\ Len(turn'[t].seen) = Len(turn[t].seen) + 1
          /\ CallsCounted' /\ OwnObservations'
      BY <2>1, <2>2, ObserveEffect
    <2>5. ASSUME NEW u \in ToolThreads, doing'[u] # NoItem, doing'[u].turn = t
          PROVE  doing'[u].n < Len(turn'[t].seen) + 1
      <3> DEFINE n == Len(turn[t].seen)
                 m == doing[u].n
      <3>1. doing'[u] = doing[u]
        BY <1>1, <2>5
      <3>2. m \in Int /\ m < n + 2 /\ n \in Nat
        BY <2>1, <2>5, <3>1, CallsRun, TurnShape
      <3> HIDE DEF n, m
      <3>3. m < (n + 1) + 1
        BY <3>2
      <3> QED
        BY <2>4, <3>1, <3>3 DEF n, m
    <2>6. QueuedAwaited' /\ RunningMade'
      BY <1>1, <2>1, <2>3, <2>4, <2>5, KeepItems
    <2> QED
      BY <1>1, <2>4, <2>6 DEF LoopInv
  <1>3. CASE ~Awaited(doing[w])
    <2>1. turn' = turn
      BY <1>3
    <2>2. \A i : (Awaited(i)' <=> Awaited(i)) /\ CallNumber(i)' = CallNumber(i)
      BY <2>1 DEF Awaited, Waiting, CallNumber
    <2>3. RunningMade'
      BY <1>1, <2>1, <2>2 DEF LoopInv, RunningMade
    <2>4. QueuedAwaited'
      BY <2>1, <2>2 DEF LoopInv, QueuedAwaited
    <2> QED
      BY <1>1, <2>1, <2>3, <2>4 DEF LoopInv, CallsCounted, OwnObservations, Waiting
  <1> QED
    BY <1>2, <1>3

\* A step that none of the turns and no item takes part in.
LEMMA LoopUnchanged ==
  ASSUME LoopInv, UNCHANGED <<turn, queue, doing>>
  PROVE  LoopInv'
  <1>1. \A i : (Awaited(i)' <=> Awaited(i)) /\ CallNumber(i)' = CallNumber(i) /\ (Waiting(i)' <=> Waiting(i))
    BY DEF Awaited, Waiting, CallNumber
  <1> QED
    BY <1>1 DEF LoopInv, CallsCounted, QueuedAwaited, RunningMade, OwnObservations

-----------------------------------------------------------------------------
(* The theorems *)

\* A step that no call takes part in.
LEMMA ServicesUnchanged ==
  ASSUME CallsInv, TablesInv, UNCHANGED serviceVars
  PROVE  CallsInv' /\ TablesInv' /\ UNCHANGED serving
  <1>1. UNCHANGED <<run, inUse, serving, users, tickets, nextTicket, category, products,
                    requests, welcomed, receipts>>
    BY DEF serviceVars, pool, tables, history
  <1>2. Threads' = Threads /\ Undrawn' = Undrawn /\ \A c \in Categories : Creating(c)' = Creating(c)
    BY <1>1 DEF Threads, Undrawn, Creating
  <1>3. \A w : /\ HasInserted(w)' <=> HasInserted(w)
               /\ HasDrawn(w)' <=> HasDrawn(w)
               /\ HasTicket(w)' <=> HasTicket(w)
    BY <1>1 DEF HasInserted, HasDrawn, HasTicket
  <1>4. CallsInv'
    BY <1>1, <1>2 DEF CallsInv, CallsAtStatement, ConnectionsAccounted, Threads
  <1>5. Registrations' /\ Tickets' /\ CategoriesKept'
    BY <1>1, <1>2, <1>3 DEF TablesInv, Registrations, Tickets, CategoriesKept, InsertedOnce,
       WelcomedOnce, TicketsDrawn, ReceiptNotOlder, ProductsHaveCategory, Threads
  <1>6. Counts'
    BY <1>1, <1>2 DEF TablesInv, Counts, RequestsCounted
  <1> QED
    BY <1>1, <1>4, <1>5, <1>6 DEF TablesInv

Services == CallsInv /\ TablesInv /\ serving \in BOOLEAN

LEMMA Parts == IInv <=> Services /\ LoopInv
  BY ServicesParts DEF IInv, Services, LoopInv, TypeOK, ServicesIInv

LEMMA PartsNext == Services' /\ LoopInv' => IInv'
  BY DEF Services, LoopInv, IInv, TypeOK, ServicesIInv, ServicesTypeOK, CallsInv, TablesInv,
         Registrations, Tickets, Counts, CategoriesKept

LEMMA InitIInv ==
  ASSUME Init
  PROVE  IInv
  <1>1. Services
    BY InvServicesInit DEF Init, Services
  <1>2. turn \in [Turns -> Turn] /\ queue \in Seq(Item) /\ doing \in [ToolThreads -> Item \union {NoItem}]
    <2>1. 0 \in 0..MaxSteps /\ <<>> \in Seq(Tools \union {"unknown"}) /\ <<>> \in Seq(Observation) /\ <<>> \in Seq(Item)
      BY StepsAssumption
    <2>2. turn = [t \in Turns |-> [phase |-> "llm", step |-> 0, calls |-> <<>>, seen |-> <<>>]]
      BY DEF Init
    <2>3. [phase |-> "llm", step |-> 0, calls |-> <<>>, seen |-> <<>>] \in Turn
      BY <2>1 DEF Turn
    <2> QED
      BY <2>1, <2>2, <2>3 DEF Init
  <1>3. \A t \in Turns : /\ turn[t].phase = "llm" /\ turn[t].step = 0
                          /\ turn[t].calls = <<>> /\ turn[t].seen = <<>>
    BY DEF Init
  <1>4. CallsCounted /\ OwnObservations
    <2>1. 0 * MaxCalls = 0
      BY StepsAssumption
    <2>2. Len(<<>>) = 0
      OBVIOUS
    <2>3. CallsCounted
      <3>1. \A t \in Turns : Len(turn[t].seen) + Len(turn[t].calls) <= turn[t].step * MaxCalls
        <4> SUFFICES ASSUME NEW t \in Turns
                     PROVE  Len(turn[t].seen) + Len(turn[t].calls) <= turn[t].step * MaxCalls
          OBVIOUS
        <4>1. turn[t].step * MaxCalls = 0 /\ Len(turn[t].seen) = 0 /\ Len(turn[t].calls) = 0
          BY <1>3, <2>1, <2>2
        <4> QED
          BY <4>1
      <3> QED
        BY <1>3, <3>1 DEF CallsCounted, Waiting
    <2> QED
      BY <1>3, <2>2, <2>3 DEF OwnObservations
  <1>5. QueuedAwaited /\ RunningMade
    BY DEF Init, QueuedAwaited, RunningMade
  <1> QED
    BY <1>1, <1>2, <1>4, <1>5, Parts DEF LoopInv

LEMMA InvLoop ==
  ASSUME Services, LoopInv, NEW t \in Turns, Loop(t) \/ Timeout(t) \/ Disconnect(t)
  PROVE  Services' /\ LoopInv'
  <1>1. UNCHANGED serviceVars
    BY DEF Loop, Answer, AskForTools, GiveUp, NextRound, UnknownTool, CallTool, Timeout, Disconnect
  <1>2. Services'
    BY <1>1, ServicesUnchanged DEF Services
  <1>3. LoopInv'
    BY InvPhase, InvAskForTools, InvUnknownTool, InvCallTool, InvTimeout, InvDisconnect DEF Loop
  <1> QED
    BY <1>2, <1>3

LEMMA InvThread ==
  ASSUME Services, LoopInv, NEW w \in ToolThreads, TakeCall(w) \/ ToolStep(w)
  PROVE  Services' /\ LoopInv'
  <1>1. w \in Threads
    BY DEF Threads
  <1>2. CASE TakeCall(w)
    <2>1. LoopInv' /\ Head(queue) \in Item
      BY <1>2, InvTakeCall DEF TakeCall
    <2>2. Head(queue).tool \in Tools
      BY <2>1 DEF Item
    <2>3. CallsInv' /\ TablesInv' /\ UNCHANGED serving
      BY <1>2, <2>2, InvStartTool DEF TakeCall, Services, pool
    <2> QED
      BY <2>1, <2>3 DEF Services
  <1>3. CASE ToolStep(w)
    <2>1. /\ doing[w] # NoItem /\ queue' = queue
          /\ Connect(w) \/ ReadForTool(w)
          /\ Deliver(w, "error") \/ Deliver(w, "data")
      BY <1>3 DEF ToolStep
    <2>2. Services'
      BY <1>1, <2>1, InvConnect, InvReadForTool DEF Services
    <2>3. \/ UNCHANGED <<turn, queue, doing>>
          \/ \E kind \in {"data", "error"} :
                /\ IF Awaited(doing[w])
                   THEN Observe(doing[w].turn, doing[w].n, doing[w].user, kind)
                   ELSE UNCHANGED turn
                /\ doing' = [doing EXCEPT ![w] = NoItem]
      BY <2>1 DEF Deliver
    <2>4. LoopInv'
      BY <2>1, <2>3, LoopUnchanged, InvDelivery
    <2> QED
      BY <2>2, <2>4
  <1> QED
    BY <1>2, <1>3

LEMMA InvHandlerStep ==
  ASSUME Services, LoopInv, NEW w \in Handlers, HandlerStep(w)
  PROVE  Services' /\ LoopInv'
  <1>1. w \in Threads
    BY DEF Threads
  <1>2. Services'
    BY <1>1, InvRequest, InvConnect, InvServiceStatement DEF HandlerStep, Services
  <1>3. LoopInv'
    BY LoopUnchanged DEF HandlerStep
  <1> QED
    BY <1>2, <1>3

LEMMA InvShutdown ==
  ASSUME Services, LoopInv, Shutdown
  PROVE  Services' /\ LoopInv'
  <1>1. /\ \A w \in Handlers : Free(w)
        /\ inUse' = {} /\ serving' = FALSE
        /\ run' = [w \in Threads |-> IF run[w].conn = "used" THEN Closed(run[w]) ELSE run[w]]
        /\ UNCHANGED <<tables, history, turn, queue, doing>>
    BY DEF Shutdown, Closed
  <1>2. Services'
    BY <1>1, InvClosePool DEF Services
  <1>3. LoopInv'
    BY <1>1, LoopUnchanged
  <1> QED
    BY <1>2, <1>3

LEMMA NextIInv ==
  ASSUME IInv, [Next]_vars
  PROVE  IInv'
  <1>1. Services /\ LoopInv
    BY Parts
  <1>2. CASE UNCHANGED vars
    <2>1. UNCHANGED serviceVars /\ UNCHANGED <<turn, queue, doing>>
      BY <1>2 DEF vars
    <2>2. Services' /\ LoopInv'
      BY <1>1, <2>1, ServicesUnchanged, LoopUnchanged DEF Services
    <2> QED
      BY <2>2, PartsNext
  <1>3. CASE Next
    <2>1. Services' /\ LoopInv'
      BY <1>1, <1>3, InvLoop, InvThread, InvHandlerStep, InvShutdown DEF Next
    <2> QED
      BY <2>1, PartsNext
  <1> QED
    BY <1>2, <1>3

\* The pool, the tables, the turns and what runs for them at every state.
THEOREM Invariance == Spec => []IInv
  BY InitIInv, NextIInv, PTL DEF Spec

\* Type correctness.
THEOREM TypeCorrect == Spec => []TypeOK
  <1>1. IInv => TypeOK
    BY DEF IInv
  <1> QED
    BY <1>1, Invariance, PTL

\* The pool never loses a connection, nor hands out more than it may have,
\* however many threads take, fail with, and are robbed of their connections.
THEOREM AccountsForConnections == Spec => []ConnectionsAccounted
  <1>1. IInv => ConnectionsAccounted
    BY DEF IInv, ServicesIInv
  <1> QED
    BY <1>1, Invariance, PTL

\* At most one registration of an address is answered with success.
THEOREM WelcomesOnce == Spec => []WelcomedOnce
  <1>1. IInv => WelcomedOnce
    BY DEF IInv, ServicesIInv
  <1> QED
    BY <1>1, Invariance, PTL

\* The receipt of an after-sale request shows that request or a later one.
THEOREM ShowsRecentReceipt == Spec => []ReceiptNotOlder
  <1>1. IInv => ReceiptNotOlder
    BY DEF IInv, ServicesIInv
  <1> QED
    BY <1>1, Invariance, PTL

\* A category that has products is never deleted.
THEOREM KeepsCategories == Spec => []ProductsHaveCategory
  <1>1. IInv => ProductsHaveCategory
    BY DEF IInv, ServicesIInv
  <1> QED
    BY <1>1, Invariance, PTL

\* A turn sees the outcomes of its own calls, in their order, for its own user.
THEOREM SeesOwnObservations == Spec => []OwnObservations
  <1>1. IInv => OwnObservations
    BY DEF IInv
  <1> QED
    BY <1>1, Invariance, PTL

\* A call that was given up while it queued is never started: what a thread
\* takes is the first of the queue, which its turn waits for.
THEOREM NeverStartsAbandoned == Spec => AbandonedNeverStarts
  <1> DEFINE Starts == \A w \in ToolThreads :
                          doing'[w] # doing[w] /\ doing'[w] # NoItem => Awaited(doing'[w])
  <1>1. ASSUME IInv, [Next]_vars
        PROVE  Starts
    <2>1. LoopInv
      BY <1>1, Parts
    <2>2. ASSUME NEW v \in ToolThreads, TakeCall(v)
          PROVE  Starts
      <3>1. Awaited(Head(queue)) /\ doing' = [doing EXCEPT ![v] = Head(queue)]
        BY <2>1, <2>2, InvTakeCall DEF TakeCall
      <3> QED
        BY <2>1, <3>1 DEF LoopInv
    <2>3. ASSUME NEW v \in ToolThreads, ToolStep(v)
          PROVE  Starts
      <3>1. doing' = doing \/ doing' = [doing EXCEPT ![v] = NoItem]
        BY <2>3 DEF ToolStep, Deliver
      <3> QED
        BY <2>1, <3>1 DEF LoopInv
    <2>4. ASSUME doing' = doing
          PROVE  Starts
      BY <2>4
    <2>5. ASSUME NEW t \in Turns, Loop(t) \/ Timeout(t) \/ Disconnect(t)
          PROVE  doing' = doing
      BY <2>5 DEF Loop, Answer, AskForTools, GiveUp, NextRound, UnknownTool, CallTool, Timeout, Disconnect
    <2>6. ASSUME NEW w \in Handlers, HandlerStep(w)
          PROVE  doing' = doing
      BY <2>6 DEF HandlerStep
    <2>7. Shutdown \/ UNCHANGED vars => doing' = doing
      BY DEF Shutdown, vars
    <2> HIDE DEF Starts
    <2> QED
      BY <1>1, <2>2, <2>3, <2>4, <2>5, <2>6, <2>7 DEF Next
  <1>2. IInv /\ [Next]_vars => [Starts]_vars
    BY <1>1
  <1> QED
    BY <1>2, Invariance, PTL DEF Spec, AbandonedNeverStarts

=============================================================================
