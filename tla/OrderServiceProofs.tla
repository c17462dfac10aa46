------------------------- MODULE OrderServiceProofs -------------------------
(***************************************************************************)
(* Proofs about OrderService for any customers, products, order ids and    *)
(* threads.                                                                *)
(***************************************************************************)
EXTENDS OrderService, FiniteSetTheorems, TLAPS

-----------------------------------------------------------------------------
(* Type correctness, action by action *)

LEMMA NothingType == Nothing \in Amounts
  BY DEF Nothing, Amounts

LEMMA IdleTxType == IdleTx \in Transaction
  BY NothingType DEF IdleTx, Transaction, Steps

LEMMA CartRowsType ==
  ASSUME NEW u \in Users
  PROVE  CartRows(u) \subseteq Rows
  BY DEF CartRows, Rows

LEMMA EndTxType ==
  ASSUME TypeOK, NEW w \in Workers, NEW dead
  PROVE  EndTx(w, dead) \in [Workers -> Transaction]
  BY IdleTxType DEF EndTx, TypeOK, Transaction

LEMMA TypeAcquireCartRow ==
  ASSUME TypeOK, UsersKnown, NEW w \in Workers, NEW p \in Products, AcquireCartRow(w, p)
  PROVE  TypeOK'
  <1> DEFINE r == CartRow(tx[w].user, p)
             t == [tx[w] EXCEPT !.todo = @ \ {r}, !.held = @ \union {r},
                                !.items = [@ EXCEPT ![p] = cart[tx[w].user][p]]]
  <1>1. tx[w].user \in Users /\ r \in Rows
    BY DEF AcquireCartRow, UsersKnown, Rows
  <1>2. cart[tx[w].user][p] \in Nat
    BY <1>1 DEF TypeOK, Amounts
  <1>3. tx[w] \in Transaction
    BY DEF TypeOK
  <1>4. [tx[w].items EXCEPT ![p] = cart[tx[w].user][p]] \in Amounts
    BY <1>2, <1>3 DEF Transaction, Amounts
  <1>5. t \in Transaction
    BY <1>1, <1>3, <1>4 DEF Transaction
  <1>6. tx' = [tx EXCEPT ![w] = t]
    BY DEF AcquireCartRow, TypeOK
  <1>7. tx' \in [Workers -> Transaction]
    BY <1>5, <1>6 DEF TypeOK
  <1> QED
    BY <1>7 DEF TypeOK, AcquireCartRow, goods, books

LEMMA TypeAcquireRow ==
  ASSUME TypeOK, UsersKnown, NEW w \in Workers, NEW r \in Rows, AcquireRow(w, r)
  PROVE  TypeOK'
  <1>1. tx' \in [Workers -> Transaction]
     BY DEF AcquireRow, TypeOK, Transaction
  <1> QED
    BY <1>1 DEF TypeOK, AcquireRow, goods, books

LEMMA TypeBeginCreate ==
  ASSUME TypeOK, UsersKnown, NEW w \in Workers, NEW u \in Users, BeginCreate(w, u)
  PROVE  TypeOK'
  BY IdleTxType, CartRowsType DEF TypeOK, BeginCreate, goods, books, IdleTx, Transaction, Amounts, Steps

LEMMA TypeReserve ==
  ASSUME TypeOK, UsersKnown, NEW w \in Workers, Reserve(w)
  PROVE  TypeOK'
  <1>1. tx' \in [Workers -> Transaction]
     BY CartRowsType DEF Reserve, TypeOK, Transaction, UsersKnown, UnusedIds, Steps
  <1> QED
  BY <1>1 DEF TypeOK, Reserve, goods, books

LEMMA TypeCommitCreate ==
  ASSUME TypeOK, UsersKnown, NEW w \in Workers, CommitCreate(w)
  PROVE  TypeOK'
  <1>1. tx' \in [Workers -> Transaction]
    BY EndTxType DEF CommitCreate, DeleteCartRows
  <1>2. orders' \in [OrderIds -> Order]
    BY DEF CommitCreate, PlaceOrder, TypeOK, Transaction, Order, Statuses
  <1>3. cart' \in [Users -> Amounts]
    BY DEF CommitCreate, DeleteCartRows, TypeOK, Amounts
  <1>4. stock' \in [Products -> Int]
    BY DEF CommitCreate, PlaceOrder, TypeOK, Transaction, Amounts
  <1> QED
    BY <1>1, <1>2, <1>3, <1>4 DEF TypeOK, CommitCreate, PlaceOrder

LEMMA TypeLockProducts ==
  ASSUME TypeOK, NEW w \in Workers, LockProducts(w)
  PROVE  TypeOK'
  <1> DEFINE rows == {ProductRow(p) : p \in Basket(w) \intersect onSale}
  <1>1. rows \in SUBSET Rows /\ "products" \in Steps
    BY DEF Basket, Rows, Steps
  <1>2. tx' = [tx EXCEPT ![w] = [tx[w] EXCEPT !.step = "products", !.todo = rows]]
    BY DEF LockProducts, TypeOK
  <1> HIDE DEF rows
  <1>3. tx' \in [Workers -> Transaction]
    BY <1>1, <1>2 DEF TypeOK, Transaction
  <1> QED
    BY <1>3 DEF TypeOK, LockProducts, goods, books

LEMMA TypeBeginDirect ==
  ASSUME TypeOK, NEW w \in Workers, NEW u \in Users, NEW p \in Products, NEW q \in Quantities,
         BeginDirect(w, u, p, q)
  PROVE  TypeOK'
  <1>1. q \in Nat
    BY DEF Quantities
  <1> DEFINE items == [Nothing EXCEPT ![p] = q]
             rows == {ProductRow(p)}
  <1>2. items \in Amounts /\ rows \in SUBSET Rows /\ "lock" \in Steps
    BY <1>1, NothingType DEF Amounts, Rows, Steps
  <1>3. tx' = [tx EXCEPT ![w] = [IdleTx EXCEPT !.step = "lock", !.user = u, !.items = items,
                                               !.todo = rows]]
    BY DEF BeginDirect, IdleTx
  <1> HIDE DEF items, rows
  <1>4. tx' \in [Workers -> Transaction]
    BY <1>2, <1>3, IdleTxType DEF TypeOK, Transaction
  <1> QED
    BY <1>4 DEF TypeOK, BeginDirect, goods, books

LEMMA TypeInsertDirect ==
  ASSUME TypeOK, NEW w \in Workers, InsertDirect(w)
  PROVE  TypeOK'
  <1> DEFINE prices == [p \in Products |-> IF p \in Basket(w) THEN price[p] ELSE 0]
  <1>1. prices \in Amounts /\ "insert" \in Steps
    BY DEF TypeOK, Amounts, Steps
  <1>2. PICK o \in OrderIds :
           tx' = [tx EXCEPT ![w] = [tx[w] EXCEPT !.step = "insert", !.order = o, !.prices = prices]]
    BY DEF InsertDirect, UnusedIds, TypeOK
  <1> HIDE DEF prices
  <1>3. tx' \in [Workers -> Transaction]
    BY <1>1, <1>2 DEF TypeOK, Transaction
  <1> QED
    BY <1>3 DEF TypeOK, InsertDirect, goods, books

LEMMA TypeCommitDirect ==
  ASSUME TypeOK, NEW w \in Workers, CommitDirect(w)
  PROVE  TypeOK'
  <1>1. tx' \in [Workers -> Transaction]
    BY EndTxType DEF CommitDirect
  <1>2. orders' \in [OrderIds -> Order]
    BY DEF CommitDirect, PlaceOrder, TypeOK, Transaction, Order, Statuses
  <1>3. stock' \in [Products -> Int]
    BY DEF CommitDirect, PlaceOrder, TypeOK, Transaction, Amounts
  <1> QED
    BY <1>1, <1>2, <1>3 DEF TypeOK, CommitDirect, PlaceOrder

LEMMA TypeBeginSettle ==
  ASSUME TypeOK, NEW w \in Workers, NEW u \in Users, NEW o \in OrderIds,
         BeginPay(w, u, o) \/ BeginCancel(w, u, o)
  PROVE  TypeOK'
  <1> DEFINE rows == {OrderRow(o)}
  <1>1. rows \in SUBSET Rows /\ {"pay", "cancel"} \subseteq Steps
    BY DEF Rows, Steps
  <1>2. PICK s \in {"pay", "cancel"} :
           tx' = [tx EXCEPT ![w] = [IdleTx EXCEPT !.step = s, !.user = u, !.order = o, !.todo = rows]]
    BY DEF BeginPay, BeginCancel
  <1> HIDE DEF rows
  <1>3. tx' \in [Workers -> Transaction]
    BY <1>1, <1>2, IdleTxType DEF TypeOK, Transaction
  <1> QED
    BY <1>3 DEF TypeOK, BeginPay, BeginCancel, goods, books

LEMMA TypeCheckPay ==
  ASSUME TypeOK, NEW w \in Workers, CheckPay(w)
  PROVE  TypeOK'
  <1>1. tx' \in [Workers -> Transaction]
    BY DEF CheckPay, TypeOK, Transaction, Steps
  <1> QED
    BY <1>1 DEF TypeOK, CheckPay, goods, books

LEMMA TypeCommitPay ==
  ASSUME TypeOK, NEW w \in Workers, CommitPay(w)
  PROVE  TypeOK'
  <1>1. tx' \in [Workers -> Transaction]
    BY EndTxType DEF CommitPay
  <1>2. orders' \in [OrderIds -> Order]
    BY DEF CommitPay, TypeOK, Order, Statuses
  <1> QED
    BY <1>1, <1>2 DEF TypeOK, CommitPay, goods

LEMMA TypeCheckCancel ==
  ASSUME TypeOK, OrderHeld, NEW w \in Workers, CheckCancel(w)
  PROVE  TypeOK'
  <1>1. orders[tx[w].order].items \in Amounts
    BY DEF TypeOK, OrderHeld, CheckCancel, Order
  <1> DEFINE items == orders[tx[w].order].items
             rows == {ProductRow(p) : p \in {p \in Products : items[p] > 0}}
  <1>2. rows \in SUBSET Rows /\ "restock" \in Steps
    BY DEF Rows, Steps
  <1>3. tx' = [tx EXCEPT ![w] = [tx[w] EXCEPT !.step = "restock", !.items = items, !.todo = rows]]
    BY DEF CheckCancel, TypeOK
  <1> HIDE DEF rows
  <1>4. tx' \in [Workers -> Transaction]
    BY <1>1, <1>2, <1>3 DEF TypeOK, Transaction
  <1> QED
    BY <1>4 DEF TypeOK, CheckCancel, goods, books

LEMMA TypeCommitCancel ==
  ASSUME TypeOK, NEW w \in Workers, CommitCancel(w)
  PROVE  TypeOK'
  <1>1. tx' \in [Workers -> Transaction]
    BY EndTxType DEF CommitCancel
  <1>2. orders' \in [OrderIds -> Order]
    BY DEF CommitCancel, TypeOK, Order, Statuses
  <1>3. stock' \in [Products -> Int]
    BY DEF CommitCancel, TypeOK, Transaction, Amounts
  <1> QED
    BY <1>1, <1>2, <1>3 DEF TypeOK, CommitCancel

LEMMA TypeEndWithoutCommit ==
  ASSUME TypeOK, NEW w \in Workers, Reject(w) \/ RollBack(w)
  PROVE  TypeOK'
  BY EndTxType DEF Reject, RollBack, TypeOK, goods, books

LEMMA TypeBeginEmptyCart ==
  ASSUME TypeOK, NEW w \in Workers, NEW u \in Users, BeginEmptyCart(w, u)
  PROVE  TypeOK'
  <1>1. tx' \in [Workers -> Transaction]
    BY IdleTxType, CartRowsType DEF BeginEmptyCart, TypeOK, IdleTx, Transaction, Steps
  <1> QED
    BY <1>1 DEF TypeOK, BeginEmptyCart, goods, books

LEMMA TypeCommitEmptyCart ==
  ASSUME TypeOK, NEW w \in Workers, CommitEmptyCart(w)
  PROVE  TypeOK'
  <1>1. tx' \in [Workers -> Transaction]
    BY EndTxType DEF CommitEmptyCart, DeleteCartRows
  <1>2. cart' \in [Users -> Amounts]
    BY DEF CommitEmptyCart, DeleteCartRows, TypeOK, Amounts
  <1> QED
    BY <1>1, <1>2 DEF TypeOK, CommitEmptyCart, goods, books

LEMMA TypeWriteCart ==
  ASSUME TypeOK, NEW u \in Users, NEW p \in Products, NEW q \in Quantities,
         AddToCart(u, p, q) \/ UpdateCart(u, p, q)
  PROVE  TypeOK'
  <1>1. cart[u][p] \in Nat /\ q \in Nat
    BY DEF TypeOK, Amounts, Quantities
  <1>2. cart' \in [Users -> Amounts]
    <2>1. CASE AddToCart(u, p, q)
      BY <1>1, <2>1 DEF AddToCart, TypeOK, Amounts
    <2>2. CASE UpdateCart(u, p, q)
      BY <1>1, <2>2 DEF UpdateCart, TypeOK, Amounts
    <2> QED
      BY <2>1, <2>2
  <1> QED
    BY <1>2 DEF AddToCart, UpdateCart, TypeOK, goods, books

LEMMA TypeRemoveFromCart ==
  ASSUME TypeOK, NEW u \in Users, NEW p \in Products, RemoveFromCart(u, p)
  PROVE  TypeOK'
  <1>1. cart' \in [Users -> Amounts]
    BY DEF RemoveFromCart, TypeOK, Amounts
  <1>2. tx' \in [Workers -> Transaction]
    BY DEF RemoveFromCart, TypeOK, Transaction
  <1> QED
    BY <1>1, <1>2 DEF RemoveFromCart, TypeOK, goods, books

LEMMA TypeAdminister ==
  ASSUME TypeOK, NEW p \in Products, Administer(p)
  PROVE  TypeOK'
  BY LevelsAssumption DEF Administer, UpdateProduct, ToggleProductStatus, TypeOK, Amounts, books

LEMMA TypeSweep ==
  ASSUME TypeOK, \/ \E o \in OrderIds : WindowPasses(o)
                 \/ SweepScan
  PROVE  TypeOK'
  BY DEF WindowPasses, SweepScan, TypeOK, goods, books

-----------------------------------------------------------------------------
(* The inductive invariant, action by action *)

LEMMA InvAcquireCartRow ==
  ASSUME IInv, NEW w \in Workers, NEW p \in Products, AcquireCartRow(w, p)
  PROVE  IInv'
  <1> USE DEF IInv
  <1>1. TypeOK'
    BY TypeAcquireCartRow
  <1>2. UsersKnown'
    BY DEF UsersKnown, AcquireCartRow, Free, goods, books, Amounts, TypeOK, Transaction
  <1>3. LocksExclusive'
    BY DEF LocksExclusive, AcquireCartRow, Free, goods, books, Amounts, TypeOK, Transaction
  <1>4. CartHeld'
    BY DEF CartHeld, AcquireCartRow, Free, goods, books, Amounts, TypeOK, Transaction
  <1>5. StockHeld'
    BY DEF StockHeld, AcquireCartRow, Free, goods, books, Amounts, TypeOK, Transaction
  <1>6. OrderHeld'
    BY DEF OrderHeld, AcquireCartRow, Free, goods, books, Amounts, TypeOK, Transaction
  <1>7. BasketFull'
    BY DEF BasketFull, AcquireCartRow, Free, goods, books, Amounts, TypeOK, Transaction
  <1>8. FreshIds'
    BY DEF FreshIds, AcquireCartRow, Free, goods, books, Amounts, TypeOK, Transaction
  <1>9. PaidOnce'
    BY DEF PaidOnce, AcquireCartRow, Free, goods, books, Amounts, TypeOK, Transaction
  <1> QED
    BY <1>1, <1>2, <1>3, <1>4, <1>5, <1>6, <1>7, <1>8, <1>9

LEMMA InvAcquireRow ==
  ASSUME IInv, NEW w \in Workers, NEW r \in Rows, AcquireRow(w, r)
  PROVE  IInv'
  <1> USE DEF IInv
  <1>1. TypeOK'
    BY TypeAcquireRow
  <1>2. UsersKnown'
    BY DEF UsersKnown, AcquireRow, Free, goods, books, TypeOK, Transaction
  <1>3. LocksExclusive'
    BY DEF LocksExclusive, AcquireRow, Free, goods, books, TypeOK, Transaction
  <1>4. CartHeld'
    BY DEF CartHeld, AcquireRow, Free, goods, books, TypeOK, Transaction
  <1>5. StockHeld'
    BY DEF StockHeld, AcquireRow, Free, goods, books, TypeOK, Transaction
  <1>6. OrderHeld'
    BY DEF OrderHeld, AcquireRow, Free, goods, books, TypeOK, Transaction
  <1>7. BasketFull'
    BY DEF BasketFull, AcquireRow, Free, goods, books, TypeOK, Transaction
  <1>8. FreshIds'
    BY DEF FreshIds, AcquireRow, Free, goods, books, TypeOK, Transaction
  <1>9. PaidOnce'
    BY DEF PaidOnce, AcquireRow, Free, goods, books, TypeOK, Transaction
  <1> QED
    BY <1>1, <1>2, <1>3, <1>4, <1>5, <1>6, <1>7, <1>8, <1>9

LEMMA InvEndWithoutCommit ==
  ASSUME IInv, NEW w \in Workers, Reject(w) \/ RollBack(w)
  PROVE  IInv'
  <1> USE DEF IInv
  <1>1. TypeOK'
    BY TypeEndWithoutCommit
  <1>2. UsersKnown'
    BY DEF UsersKnown, Reject, RollBack, EndTx, IdleTx, goods, books, TypeOK, Transaction
  <1>3. LocksExclusive'
    BY DEF LocksExclusive, Reject, RollBack, EndTx, IdleTx, goods, books, TypeOK, Transaction
  <1>4. CartHeld'
    BY DEF CartHeld, Reject, RollBack, EndTx, IdleTx, goods, books, TypeOK, Transaction
  <1>5. StockHeld'
    BY DEF StockHeld, Reject, RollBack, EndTx, IdleTx, goods, books, TypeOK, Transaction
  <1>6. OrderHeld'
    BY DEF OrderHeld, Reject, RollBack, EndTx, IdleTx, goods, books, TypeOK, Transaction
  <1>7. BasketFull'
    BY DEF BasketFull, Reject, RollBack, EndTx, IdleTx, goods, books, TypeOK, Transaction
  <1>8. FreshIds'
    BY OrderIdsAssumption DEF FreshIds, Reject, RollBack, EndTx, IdleTx, goods, books, TypeOK, Transaction, NoOrder
  <1>9. PaidOnce'
    BY DEF PaidOnce, Reject, RollBack, EndTx, IdleTx, goods, books, TypeOK, Transaction
  <1> QED
    BY <1>1, <1>2, <1>3, <1>4, <1>5, <1>6, <1>7, <1>8, <1>9

LEMMA InvBeginCreate ==
  ASSUME IInv, NEW w \in Workers, NEW u \in Users, BeginCreate(w, u)
  PROVE  IInv'
  <1> USE DEF IInv
  <1>1. TypeOK'
    BY TypeBeginCreate
  <1>2. UsersKnown'
    BY DEF UsersKnown, BeginCreate, IdleTx, Nothing, goods, books, TypeOK, Transaction
  <1>3. LocksExclusive'
    BY DEF LocksExclusive, BeginCreate, IdleTx, Nothing, goods, books, TypeOK, Transaction
  <1>4. CartHeld'
    BY DEF CartHeld, BeginCreate, IdleTx, Nothing, goods, books, TypeOK, Transaction
  <1>5. StockHeld'
    BY DEF StockHeld, BeginCreate, IdleTx, Nothing, goods, books, TypeOK, Transaction
  <1>6. OrderHeld'
    BY DEF OrderHeld, BeginCreate, IdleTx, Nothing, goods, books, TypeOK, Transaction
  <1>7. BasketFull'
    BY DEF BasketFull, BeginCreate, IdleTx, Nothing, goods, books, TypeOK, Transaction
  <1>8. FreshIds'
    BY OrderIdsAssumption DEF FreshIds, BeginCreate, IdleTx, Nothing, goods, books, TypeOK, Transaction, NoOrder
  <1>9. PaidOnce'
    BY DEF PaidOnce, BeginCreate, IdleTx, Nothing, goods, books, TypeOK, Transaction
  <1> QED
    BY <1>1, <1>2, <1>3, <1>4, <1>5, <1>6, <1>7, <1>8, <1>9

LEMMA InvLockProducts ==
  ASSUME IInv, NEW w \in Workers, LockProducts(w)
  PROVE  IInv'
  <1> USE DEF IInv
  <1>1. TypeOK'
    BY TypeLockProducts
  <1>2. UsersKnown'
    BY DEF UsersKnown, LockProducts, goods, books, TypeOK, Transaction
  <1>3. LocksExclusive'
    BY DEF LocksExclusive, LockProducts, goods, books, TypeOK, Transaction
  <1>4. CartHeld'
    BY DEF CartHeld, LockProducts, goods, books, TypeOK, Transaction
  <1>5. StockHeld'
    BY DEF StockHeld, LockProducts, goods, books, TypeOK, Transaction
  <1>6. OrderHeld'
    BY DEF OrderHeld, LockProducts, goods, books, TypeOK, Transaction
  <1>7. BasketFull'
    BY DEF BasketFull, LockProducts, goods, books, TypeOK, Transaction, Basket
  <1>8. FreshIds'
    BY DEF FreshIds, LockProducts, goods, books, TypeOK, Transaction
  <1>9. PaidOnce'
    BY DEF PaidOnce, LockProducts, goods, books, TypeOK, Transaction
  <1> QED
    BY <1>1, <1>2, <1>3, <1>4, <1>5, <1>6, <1>7, <1>8, <1>9

LEMMA InvReserve ==
  ASSUME IInv, NEW w \in Workers, Reserve(w)
  PROVE  IInv'
  <1> USE DEF IInv
  <1>1. TypeOK'
    BY TypeReserve
  <1>2. UsersKnown'
    BY DEF UsersKnown, Reserve, goods, books, TypeOK, Transaction
  <1>3. LocksExclusive'
    BY DEF LocksExclusive, Reserve, goods, books, TypeOK, Transaction
  <1>4. CartHeld'
    BY DEF CartHeld, Reserve, goods, books, TypeOK, Transaction
  <1>5. StockHeld'
    BY DEF StockHeld, Reserve, goods, books, TypeOK, Transaction, Available, Basket
  <1>6. OrderHeld'
    BY DEF OrderHeld, Reserve, goods, books, TypeOK, Transaction
  <1>7. BasketFull'
    BY DEF BasketFull, Reserve, goods, books, TypeOK, Transaction
  <1>8. FreshIds'
    BY OrderIdsAssumption DEF FreshIds, Reserve, goods, books, TypeOK, Transaction, UnusedIds
  <1>9. PaidOnce'
    BY DEF PaidOnce, Reserve, goods, books, TypeOK, Transaction
  <1> QED
    BY <1>1, <1>2, <1>3, <1>4, <1>5, <1>6, <1>7, <1>8, <1>9

LEMMA InvCommitCreate ==
  ASSUME IInv, NEW w \in Workers, CommitCreate(w)
  PROVE  IInv'
  <1> USE DEF IInv
  <1>1. TypeOK'
    BY TypeCommitCreate
  <1>2. UsersKnown'
    BY DEF UsersKnown, CommitCreate, PlaceOrder, DeleteCartRows, EndTx, IdleTx, TypeOK, Transaction
  <1>3. LocksExclusive'
    BY DEF LocksExclusive, CommitCreate, PlaceOrder, DeleteCartRows, EndTx, IdleTx, TypeOK, Transaction
  <1>4. CartHeld'
    BY DEF CartHeld, CommitCreate, PlaceOrder, DeleteCartRows, EndTx, IdleTx, TypeOK, Transaction, LocksExclusive, Amounts
  <1>5. StockHeld'
    <2>1. \A p \in Products : stock[p] \in Int /\ tx[w].items[p] \in Nat
      BY DEF TypeOK, Transaction, Amounts
    <2>2. \A p \in Products : stock'[p] = stock[p] - tx[w].items[p]
      BY DEF CommitCreate, PlaceOrder
    <2>3. \A p \in Products : stock'[p] >= 0
      BY <2>1, <2>2 DEF StockHeld, CommitCreate
    <2>4. ASSUME NEW v \in Workers, tx'[v].step \in {"clear", "insert"}, NEW p \in Products, tx'[v].items[p] > 0
          PROVE  ProductRow(p) \in tx'[v].held /\ tx'[v].items[p] <= stock'[p]
      <3>1. v # w /\ tx'[v].step = tx[v].step /\ tx'[v].items = tx[v].items /\ tx'[v].held = tx[v].held
        BY <2>4 DEF CommitCreate, DeleteCartRows, EndTx, IdleTx, TypeOK, Transaction
      <3>2. ProductRow(p) \in tx[v].held /\ tx[v].items[p] <= stock[p]
        BY <2>4, <3>1 DEF StockHeld
      <3>3. ~(tx[w].items[p] > 0)
        BY <3>1, <3>2 DEF StockHeld, LocksExclusive, CommitCreate
      <3> QED
        BY <2>1, <2>2, <3>1, <3>2, <3>3
    <2> QED
      BY <2>3, <2>4 DEF StockHeld
  <1>6. OrderHeld'
    BY DEF OrderHeld, CommitCreate, PlaceOrder, DeleteCartRows, EndTx, IdleTx, TypeOK, Transaction, FreshIds, CartRow, OrderRow
  <1>7. BasketFull'
    BY DEF BasketFull, CommitCreate, PlaceOrder, DeleteCartRows, EndTx, IdleTx, TypeOK, Transaction
  <1>8. FreshIds'
    BY OrderIdsAssumption DEF FreshIds, CommitCreate, PlaceOrder, DeleteCartRows, EndTx, IdleTx, TypeOK, Transaction, NoOrder
  <1>9. PaidOnce'
    BY DEF PaidOnce, CommitCreate, PlaceOrder, DeleteCartRows, EndTx, IdleTx, TypeOK, Transaction, FreshIds
  <1> QED
    BY <1>1, <1>2, <1>3, <1>4, <1>5, <1>6, <1>7, <1>8, <1>9

LEMMA InvBeginDirect ==
  ASSUME IInv, NEW w \in Workers, NEW u \in Users, NEW p \in Products, NEW q \in Quantities, BeginDirect(w, u, p, q)
  PROVE  IInv'
  <1> USE DEF IInv
  <1>1. TypeOK'
    BY TypeBeginDirect
  <1>2. UsersKnown'
    BY DEF UsersKnown, BeginDirect, IdleTx, goods, books, TypeOK, Transaction
  <1>3. LocksExclusive'
    BY DEF LocksExclusive, BeginDirect, IdleTx, goods, books, TypeOK, Transaction
  <1>4. CartHeld'
    BY DEF CartHeld, BeginDirect, IdleTx, goods, books, TypeOK, Transaction
  <1>5. StockHeld'
    BY DEF StockHeld, BeginDirect, IdleTx, goods, books, TypeOK, Transaction
  <1>6. OrderHeld'
    BY DEF OrderHeld, BeginDirect, IdleTx, goods, books, TypeOK, Transaction
  <1>7. BasketFull'
    BY NothingType DEF BasketFull, BeginDirect, IdleTx, goods, books, TypeOK, Transaction, Quantities, Amounts
  <1>8. FreshIds'
    BY OrderIdsAssumption DEF FreshIds, BeginDirect, IdleTx, goods, books, TypeOK, Transaction, NoOrder
  <1>9. PaidOnce'
    BY DEF PaidOnce, BeginDirect, IdleTx, goods, books, TypeOK, Transaction
  <1> QED
    BY <1>1, <1>2, <1>3, <1>4, <1>5, <1>6, <1>7, <1>8, <1>9

LEMMA InvInsertDirect ==
  ASSUME IInv, NEW w \in Workers, InsertDirect(w)
  PROVE  IInv'
  <1> USE DEF IInv
  <1>1. TypeOK'
    BY TypeInsertDirect
  <1>2. UsersKnown'
    BY DEF UsersKnown, InsertDirect, goods, books, TypeOK, Transaction
  <1>3. LocksExclusive'
    BY DEF LocksExclusive, InsertDirect, goods, books, TypeOK, Transaction
  <1>4. CartHeld'
    BY DEF CartHeld, InsertDirect, goods, books, TypeOK, Transaction
  <1>5. StockHeld'
    BY DEF StockHeld, InsertDirect, goods, books, TypeOK, Transaction, Available, Basket
  <1>6. OrderHeld'
    BY DEF OrderHeld, InsertDirect, goods, books, TypeOK, Transaction
  <1>7. BasketFull'
    BY DEF BasketFull, InsertDirect, goods, books, TypeOK, Transaction
  <1>8. FreshIds'
    BY OrderIdsAssumption DEF FreshIds, InsertDirect, goods, books, TypeOK, Transaction, UnusedIds
  <1>9. PaidOnce'
    BY DEF PaidOnce, InsertDirect, goods, books, TypeOK, Transaction
  <1> QED
    BY <1>1, <1>2, <1>3, <1>4, <1>5, <1>6, <1>7, <1>8, <1>9

LEMMA InvCommitDirect ==
  ASSUME IInv, NEW w \in Workers, CommitDirect(w)
  PROVE  IInv'
  <1> USE DEF IInv
  <1>1. TypeOK'
    BY TypeCommitDirect
  <1>2. UsersKnown'
    BY DEF UsersKnown, CommitDirect, PlaceOrder, EndTx, IdleTx, TypeOK, Transaction
  <1>3. LocksExclusive'
    BY DEF LocksExclusive, CommitDirect, PlaceOrder, EndTx, IdleTx, TypeOK, Transaction
  <1>4. CartHeld'
    BY DEF CartHeld, CommitDirect, PlaceOrder, EndTx, IdleTx, TypeOK, Transaction
  <1>5. StockHeld'
    <2>1. \A p \in Products : stock[p] \in Int /\ tx[w].items[p] \in Nat
      BY DEF TypeOK, Transaction, Amounts
    <2>2. \A p \in Products : stock'[p] = stock[p] - tx[w].items[p]
      BY DEF CommitDirect, PlaceOrder
    <2>3. \A p \in Products : stock'[p] >= 0
      BY <2>1, <2>2 DEF StockHeld, CommitDirect
    <2>4. ASSUME NEW v \in Workers, tx'[v].step \in {"clear", "insert"}, NEW p \in Products, tx'[v].items[p] > 0
          PROVE  ProductRow(p) \in tx'[v].held /\ tx'[v].items[p] <= stock'[p]
      <3>1. v # w /\ tx'[v].step = tx[v].step /\ tx'[v].items = tx[v].items /\ tx'[v].held = tx[v].held
        BY <2>4 DEF CommitDirect, EndTx, IdleTx, TypeOK, Transaction
      <3>2. ProductRow(p) \in tx[v].held /\ tx[v].items[p] <= stock[p]
        BY <2>4, <3>1 DEF StockHeld
      <3>3. ~(tx[w].items[p] > 0)
        BY <3>1, <3>2 DEF StockHeld, LocksExclusive, CommitDirect
      <3> QED
        BY <2>1, <2>2, <3>1, <3>2, <3>3
    <2> QED
      BY <2>3, <2>4 DEF StockHeld
  <1>6. OrderHeld'
    BY DEF OrderHeld, CommitDirect, PlaceOrder, EndTx, IdleTx, TypeOK, Transaction, FreshIds
  <1>7. BasketFull'
    BY DEF BasketFull, CommitDirect, PlaceOrder, EndTx, IdleTx, TypeOK, Transaction
  <1>8. FreshIds'
    BY OrderIdsAssumption DEF FreshIds, CommitDirect, PlaceOrder, EndTx, IdleTx, TypeOK, Transaction, NoOrder
  <1>9. PaidOnce'
    BY DEF PaidOnce, CommitDirect, PlaceOrder, EndTx, IdleTx, TypeOK, Transaction, FreshIds
  <1> QED
    BY <1>1, <1>2, <1>3, <1>4, <1>5, <1>6, <1>7, <1>8, <1>9

LEMMA InvBeginPay ==
  ASSUME IInv, NEW w \in Workers, NEW u \in Users, NEW o \in OrderIds, BeginPay(w, u, o)
  PROVE  IInv'
  <1> USE DEF IInv
  <1>1. TypeOK'
    BY TypeBeginSettle
  <1>2. UsersKnown'
    BY DEF UsersKnown, BeginPay, IdleTx, goods, books, TypeOK, Transaction
  <1>3. LocksExclusive'
    BY DEF LocksExclusive, BeginPay, IdleTx, goods, books, TypeOK, Transaction
  <1>4. CartHeld'
    BY DEF CartHeld, BeginPay, IdleTx, goods, books, TypeOK, Transaction
  <1>5. StockHeld'
    BY DEF StockHeld, BeginPay, IdleTx, goods, books, TypeOK, Transaction
  <1>6. OrderHeld'
    BY DEF OrderHeld, BeginPay, IdleTx, goods, books, TypeOK, Transaction
  <1>7. BasketFull'
    BY DEF BasketFull, BeginPay, IdleTx, goods, books, TypeOK, Transaction
  <1>8. FreshIds'
    BY OrderIdsAssumption DEF FreshIds, BeginPay, IdleTx, goods, books, TypeOK, Transaction, NoOrder
  <1>9. PaidOnce'
    BY DEF PaidOnce, BeginPay, IdleTx, goods, books, TypeOK, Transaction
  <1> QED
    BY <1>1, <1>2, <1>3, <1>4, <1>5, <1>6, <1>7, <1>8, <1>9

LEMMA InvBeginCancel ==
  ASSUME IInv, NEW w \in Workers, NEW u \in Users, NEW o \in OrderIds, BeginCancel(w, u, o)
  PROVE  IInv'
  <1> USE DEF IInv
  <1>1. TypeOK'
    BY TypeBeginSettle
  <1>2. UsersKnown'
    BY DEF UsersKnown, BeginCancel, IdleTx, goods, books, TypeOK, Transaction
  <1>3. LocksExclusive'
    BY DEF LocksExclusive, BeginCancel, IdleTx, goods, books, TypeOK, Transaction
  <1>4. CartHeld'
    BY DEF CartHeld, BeginCancel, IdleTx, goods, books, TypeOK, Transaction
  <1>5. StockHeld'
    BY DEF StockHeld, BeginCancel, IdleTx, goods, books, TypeOK, Transaction
  <1>6. OrderHeld'
    BY DEF OrderHeld, BeginCancel, IdleTx, goods, books, TypeOK, Transaction
  <1>7. BasketFull'
    BY DEF BasketFull, BeginCancel, IdleTx, goods, books, TypeOK, Transaction
  <1>8. FreshIds'
    BY OrderIdsAssumption DEF FreshIds, BeginCancel, IdleTx, goods, books, TypeOK, Transaction, NoOrder
  <1>9. PaidOnce'
    BY DEF PaidOnce, BeginCancel, IdleTx, goods, books, TypeOK, Transaction
  <1> QED
    BY <1>1, <1>2, <1>3, <1>4, <1>5, <1>6, <1>7, <1>8, <1>9

LEMMA InvCheckPay ==
  ASSUME IInv, NEW w \in Workers, CheckPay(w)
  PROVE  IInv'
  <1> USE DEF IInv
  <1>1. TypeOK'
    BY TypeCheckPay
  <1>2. UsersKnown'
    BY DEF UsersKnown, CheckPay, goods, books, TypeOK, Transaction
  <1>3. LocksExclusive'
    BY DEF LocksExclusive, CheckPay, goods, books, TypeOK, Transaction
  <1>4. CartHeld'
    BY DEF CartHeld, CheckPay, goods, books, TypeOK, Transaction
  <1>5. StockHeld'
    BY DEF StockHeld, CheckPay, goods, books, TypeOK, Transaction
  <1>6. OrderHeld'
    BY DEF OrderHeld, CheckPay, goods, books, TypeOK, Transaction, Payable, UsersKnown, Order, Statuses
  <1>7. BasketFull'
    BY DEF BasketFull, CheckPay, goods, books, TypeOK, Transaction
  <1>8. FreshIds'
    BY DEF FreshIds, CheckPay, goods, books, TypeOK, Transaction
  <1>9. PaidOnce'
    BY DEF PaidOnce, CheckPay, goods, books, TypeOK, Transaction
  <1> QED
    BY <1>1, <1>2, <1>3, <1>4, <1>5, <1>6, <1>7, <1>8, <1>9

LEMMA InvCommitPay ==
  ASSUME IInv, NEW w \in Workers, CommitPay(w)
  PROVE  IInv'
  <1> USE DEF IInv
  <1>1. TypeOK'
    BY TypeCommitPay
  <1>2. UsersKnown'
    BY DEF UsersKnown, CommitPay, goods, EndTx, IdleTx, TypeOK, Transaction, OrderHeld
  <1>3. LocksExclusive'
    BY DEF LocksExclusive, CommitPay, goods, EndTx, IdleTx, TypeOK, Transaction
  <1>4. CartHeld'
    BY DEF CartHeld, CommitPay, goods, EndTx, IdleTx, TypeOK, Transaction
  <1>5. StockHeld'
    BY DEF StockHeld, CommitPay, goods, EndTx, IdleTx, TypeOK, Transaction
  <1>6. OrderHeld'
    BY DEF OrderHeld, CommitPay, goods, EndTx, IdleTx, TypeOK, Transaction, LocksExclusive
  <1>7. BasketFull'
    BY DEF BasketFull, CommitPay, goods, EndTx, IdleTx, TypeOK, Transaction
  <1>8. FreshIds'
    BY OrderIdsAssumption DEF FreshIds, CommitPay, goods, EndTx, IdleTx, TypeOK, Transaction, OrderHeld, NoOrder
  <1>9. PaidOnce'
    BY DEF PaidOnce, CommitPay, goods, EndTx, IdleTx, TypeOK, Transaction, OrderHeld
  <1> QED
    BY <1>1, <1>2, <1>3, <1>4, <1>5, <1>6, <1>7, <1>8, <1>9

LEMMA InvCheckCancel ==
  ASSUME IInv, NEW w \in Workers, CheckCancel(w)
  PROVE  IInv'
  <1> USE DEF IInv
  <1>1. TypeOK'
    BY TypeCheckCancel
  <1>2. UsersKnown'
    BY DEF UsersKnown, CheckCancel, goods, books, TypeOK, Transaction
  <1>3. LocksExclusive'
    BY DEF LocksExclusive, CheckCancel, goods, books, TypeOK, Transaction
  <1>4. CartHeld'
    BY DEF CartHeld, CheckCancel, goods, books, TypeOK, Transaction
  <1>5. StockHeld'
    BY DEF StockHeld, CheckCancel, goods, books, TypeOK, Transaction
  <1>6. OrderHeld'
    <2>1. \A v \in Workers \ {w} : tx'[v] = tx[v]
      BY DEF CheckCancel, TypeOK
    <2>2. /\ tx'[w].step = "restock" /\ tx'[w].order = tx[w].order /\ tx'[w].held = tx[w].held
          /\ tx'[w].items = orders[tx[w].order].items
      BY DEF CheckCancel, TypeOK, Transaction
    <2>3. /\ tx[w].order \in OrderIds /\ OrderRow(tx[w].order) \in tx[w].held
          /\ orders[tx[w].order].status = "pending"
      BY DEF CheckCancel, Cancellable, OrderHeld
    <2>4. orders' = orders
      BY DEF CheckCancel, books
    <2> QED
      BY <2>1, <2>2, <2>3, <2>4 DEF OrderHeld
  <1>7. BasketFull'
    BY DEF BasketFull, CheckCancel, goods, books, TypeOK, Transaction
  <1>8. FreshIds'
    BY DEF FreshIds, CheckCancel, goods, books, TypeOK, Transaction
  <1>9. PaidOnce'
    BY DEF PaidOnce, CheckCancel, goods, books, TypeOK, Transaction
  <1> QED
    BY <1>1, <1>2, <1>3, <1>4, <1>5, <1>6, <1>7, <1>8, <1>9

LEMMA InvCommitCancel ==
  ASSUME IInv, NEW w \in Workers, CommitCancel(w)
  PROVE  IInv'
  <1> USE DEF IInv
  <1>1. TypeOK'
    BY TypeCommitCancel
  <1>2. UsersKnown'
    BY DEF UsersKnown, CommitCancel, EndTx, IdleTx, TypeOK, Transaction, OrderHeld
  <1>3. LocksExclusive'
    BY DEF LocksExclusive, CommitCancel, EndTx, IdleTx, TypeOK, Transaction
  <1>4. CartHeld'
    BY DEF CartHeld, CommitCancel, EndTx, IdleTx, TypeOK, Transaction
  <1>5. StockHeld'
    BY DEF StockHeld, CommitCancel, EndTx, IdleTx, TypeOK, Transaction, Amounts
  <1>6. OrderHeld'
    BY DEF OrderHeld, CommitCancel, EndTx, IdleTx, TypeOK, Transaction, LocksExclusive
  <1>7. BasketFull'
    BY DEF BasketFull, CommitCancel, EndTx, IdleTx, TypeOK, Transaction
  <1>8. FreshIds'
    BY OrderIdsAssumption DEF FreshIds, CommitCancel, EndTx, IdleTx, TypeOK, Transaction, OrderHeld, NoOrder
  <1>9. PaidOnce'
    BY DEF PaidOnce, CommitCancel, EndTx, IdleTx, TypeOK, Transaction, OrderHeld
  <1> QED
    BY <1>1, <1>2, <1>3, <1>4, <1>5, <1>6, <1>7, <1>8, <1>9

LEMMA InvBeginEmptyCart ==
  ASSUME IInv, NEW w \in Workers, NEW u \in Users, BeginEmptyCart(w, u)
  PROVE  IInv'
  <1> USE DEF IInv
  <1>1. TypeOK'
    BY TypeBeginEmptyCart
  <1>2. UsersKnown'
    BY DEF UsersKnown, BeginEmptyCart, IdleTx, goods, books, TypeOK, Transaction
  <1>3. LocksExclusive'
    BY DEF LocksExclusive, BeginEmptyCart, IdleTx, goods, books, TypeOK, Transaction
  <1>4. CartHeld'
    BY DEF CartHeld, BeginEmptyCart, IdleTx, goods, books, TypeOK, Transaction
  <1>5. StockHeld'
    BY DEF StockHeld, BeginEmptyCart, IdleTx, goods, books, TypeOK, Transaction
  <1>6. OrderHeld'
    BY DEF OrderHeld, BeginEmptyCart, IdleTx, goods, books, TypeOK, Transaction
  <1>7. BasketFull'
    BY DEF BasketFull, BeginEmptyCart, IdleTx, goods, books, TypeOK, Transaction
  <1>8. FreshIds'
    BY OrderIdsAssumption DEF FreshIds, BeginEmptyCart, IdleTx, goods, books, TypeOK, Transaction, NoOrder
  <1>9. PaidOnce'
    BY DEF PaidOnce, BeginEmptyCart, IdleTx, goods, books, TypeOK, Transaction
  <1> QED
    BY <1>1, <1>2, <1>3, <1>4, <1>5, <1>6, <1>7, <1>8, <1>9

LEMMA InvCommitEmptyCart ==
  ASSUME IInv, NEW w \in Workers, CommitEmptyCart(w)
  PROVE  IInv'
  <1> USE DEF IInv
  <1>1. TypeOK'
    BY TypeCommitEmptyCart
  <1>2. UsersKnown'
    BY DEF UsersKnown, CommitEmptyCart, DeleteCartRows, EndTx, IdleTx, goods, books, TypeOK, Transaction
  <1>3. LocksExclusive'
    BY DEF LocksExclusive, CommitEmptyCart, DeleteCartRows, EndTx, IdleTx, goods, books, TypeOK, Transaction
  <1>4. CartHeld'
    BY DEF CartHeld, CommitEmptyCart, DeleteCartRows, EndTx, IdleTx, goods, books, TypeOK, Transaction, LocksExclusive, Amounts
  <1>5. StockHeld'
    BY DEF StockHeld, CommitEmptyCart, DeleteCartRows, EndTx, IdleTx, goods, books, TypeOK, Transaction
  <1>6. OrderHeld'
    BY DEF OrderHeld, CommitEmptyCart, DeleteCartRows, EndTx, IdleTx, goods, books, TypeOK, Transaction, CartRow, OrderRow
  <1>7. BasketFull'
    BY DEF BasketFull, CommitEmptyCart, DeleteCartRows, EndTx, IdleTx, goods, books, TypeOK, Transaction
  <1>8. FreshIds'
    BY OrderIdsAssumption DEF FreshIds, CommitEmptyCart, DeleteCartRows, EndTx, IdleTx, goods, books, TypeOK, Transaction, NoOrder
  <1>9. PaidOnce'
    BY DEF PaidOnce, CommitEmptyCart, DeleteCartRows, EndTx, IdleTx, goods, books, TypeOK, Transaction
  <1> QED
    BY <1>1, <1>2, <1>3, <1>4, <1>5, <1>6, <1>7, <1>8, <1>9

LEMMA InvAddToCart ==
  ASSUME IInv, NEW u \in Users, NEW p \in Products, NEW q \in Quantities, AddToCart(u, p, q)
  PROVE  IInv'
  <1> USE DEF IInv
  <1>1. TypeOK'
    BY TypeWriteCart
  <1>2. UsersKnown'
    BY DEF UsersKnown, AddToCart, goods, books, TypeOK, Transaction
  <1>3. LocksExclusive'
    BY DEF LocksExclusive, AddToCart, goods, books, TypeOK, Transaction
  <1>4. CartHeld'
    BY DEF CartHeld, AddToCart, goods, books, TypeOK, Transaction, Amounts
  <1>5. StockHeld'
    BY DEF StockHeld, AddToCart, goods, books, TypeOK, Transaction
  <1>6. OrderHeld'
    BY DEF OrderHeld, AddToCart, goods, books, TypeOK, Transaction
  <1>7. BasketFull'
    BY DEF BasketFull, AddToCart, goods, books, TypeOK, Transaction
  <1>8. FreshIds'
    BY DEF FreshIds, AddToCart, goods, books, TypeOK, Transaction
  <1>9. PaidOnce'
    BY DEF PaidOnce, AddToCart, goods, books, TypeOK, Transaction
  <1> QED
    BY <1>1, <1>2, <1>3, <1>4, <1>5, <1>6, <1>7, <1>8, <1>9

LEMMA InvUpdateCart ==
  ASSUME IInv, NEW u \in Users, NEW p \in Products, NEW q \in Quantities, UpdateCart(u, p, q)
  PROVE  IInv'
  <1> USE DEF IInv
  <1>1. TypeOK'
    BY TypeWriteCart
  <1>2. UsersKnown'
    BY DEF UsersKnown, UpdateCart, goods, books, TypeOK, Transaction
  <1>3. LocksExclusive'
    BY DEF LocksExclusive, UpdateCart, goods, books, TypeOK, Transaction
  <1>4. CartHeld'
    BY DEF CartHeld, UpdateCart, goods, books, TypeOK, Transaction, Amounts
  <1>5. StockHeld'
    BY DEF StockHeld, UpdateCart, goods, books, TypeOK, Transaction
  <1>6. OrderHeld'
    BY DEF OrderHeld, UpdateCart, goods, books, TypeOK, Transaction
  <1>7. BasketFull'
    BY DEF BasketFull, UpdateCart, goods, books, TypeOK, Transaction
  <1>8. FreshIds'
    BY DEF FreshIds, UpdateCart, goods, books, TypeOK, Transaction
  <1>9. PaidOnce'
    BY DEF PaidOnce, UpdateCart, goods, books, TypeOK, Transaction
  <1> QED
    BY <1>1, <1>2, <1>3, <1>4, <1>5, <1>6, <1>7, <1>8, <1>9

LEMMA InvRemoveFromCart ==
  ASSUME IInv, NEW u \in Users, NEW p \in Products, RemoveFromCart(u, p)
  PROVE  IInv'
  <1> USE DEF IInv
  <1>1. TypeOK'
    BY TypeRemoveFromCart
  <1>2. UsersKnown'
    BY DEF UsersKnown, RemoveFromCart, goods, books, TypeOK, Transaction
  <1>3. LocksExclusive'
    BY DEF LocksExclusive, RemoveFromCart, goods, books, TypeOK, Transaction
  <1>4. CartHeld'
    <2> SUFFICES ASSUME NEW v \in Workers, tx'[v].step \in {"cart", "products", "clear"},
                        NEW x \in Products, tx'[v].items[x] > 0
                 PROVE  /\ CartRow(tx'[v].user, x) \in tx'[v].held
                        /\ cart'[tx'[v].user][x] = tx'[v].items[x]
      BY DEF CartHeld
    <2>1. /\ tx'[v].step = tx[v].step /\ tx'[v].user = tx[v].user
          /\ tx'[v].items = tx[v].items /\ tx'[v].held = tx[v].held
      BY DEF RemoveFromCart, TypeOK, Transaction
    <2>2. CartRow(tx[v].user, x) \in tx[v].held /\ cart[tx[v].user][x] = tx[v].items[x]
      BY <2>1 DEF CartHeld
    <2>3. tx[v].user # u \/ x # p
      BY <2>2 DEF RemoveFromCart
    <2>4. cart'[tx[v].user][x] = cart[tx[v].user][x]
      BY <2>1, <2>3 DEF RemoveFromCart, UsersKnown, TypeOK, Amounts
    <2> QED
      BY <2>1, <2>2, <2>4
  <1>5. StockHeld'
    BY DEF StockHeld, RemoveFromCart, goods, books, TypeOK, Transaction
  <1>6. OrderHeld'
    <2>1. \A v \in Workers :
            /\ tx'[v].step = tx[v].step /\ tx'[v].order = tx[v].order
            /\ tx'[v].items = tx[v].items /\ tx'[v].held = tx[v].held
            /\ tx'[v].todo = tx[v].todo \ {CartRow(u, p)}
      BY DEF RemoveFromCart, TypeOK, Transaction
    <2>2. \A o \in OrderIds : OrderRow(o) # CartRow(u, p)
      BY DEF OrderRow, CartRow
    <2>3. orders' = orders
      BY DEF RemoveFromCart, books
    <2> QED
      BY <2>1, <2>2, <2>3 DEF OrderHeld
  <1>7. BasketFull'
    BY DEF BasketFull, RemoveFromCart, goods, books, TypeOK, Transaction
  <1>8. FreshIds'
    BY DEF FreshIds, RemoveFromCart, goods, books, TypeOK, Transaction
  <1>9. PaidOnce'
    BY DEF PaidOnce, RemoveFromCart, goods, books, TypeOK, Transaction
  <1> QED
    BY <1>1, <1>2, <1>3, <1>4, <1>5, <1>6, <1>7, <1>8, <1>9

LEMMA InvAdminister ==
  ASSUME IInv, NEW p \in Products, Administer(p)
  PROVE  IInv'
  <1> USE DEF IInv
  <1>1. TypeOK'
    BY TypeAdminister
  <1>2. UsersKnown'
    BY DEF UsersKnown, Administer, UpdateProduct, ToggleProductStatus, books, TypeOK, Transaction
  <1>3. LocksExclusive'
    BY DEF LocksExclusive, Administer, UpdateProduct, ToggleProductStatus, books, TypeOK, Transaction
  <1>4. CartHeld'
    BY DEF CartHeld, Administer, UpdateProduct, ToggleProductStatus, books, TypeOK, Transaction
  <1>5. StockHeld'
    BY LevelsAssumption DEF StockHeld, Administer, UpdateProduct, ToggleProductStatus, books, TypeOK, Transaction, ProductRow
  <1>6. OrderHeld'
    BY DEF OrderHeld, Administer, UpdateProduct, ToggleProductStatus, books, TypeOK, Transaction
  <1>7. BasketFull'
    BY DEF BasketFull, Administer, UpdateProduct, ToggleProductStatus, books, TypeOK, Transaction
  <1>8. FreshIds'
    BY DEF FreshIds, Administer, UpdateProduct, ToggleProductStatus, books, TypeOK, Transaction
  <1>9. PaidOnce'
    BY DEF PaidOnce, Administer, UpdateProduct, ToggleProductStatus, books, TypeOK, Transaction
  <1> QED
    BY <1>1, <1>2, <1>3, <1>4, <1>5, <1>6, <1>7, <1>8, <1>9

LEMMA InvSweep ==
  ASSUME IInv, \/ \E o \in OrderIds : WindowPasses(o)
               \/ SweepScan
  PROVE  IInv'
  <1> USE DEF IInv
  <1>1. TypeOK'
    BY TypeSweep
  <1>2. UsersKnown'
    BY DEF UsersKnown, WindowPasses, SweepScan, goods, books, TypeOK, Transaction
  <1>3. LocksExclusive'
    BY DEF LocksExclusive, WindowPasses, SweepScan, goods, books, TypeOK, Transaction
  <1>4. CartHeld'
    BY DEF CartHeld, WindowPasses, SweepScan, goods, books, TypeOK, Transaction
  <1>5. StockHeld'
    BY DEF StockHeld, WindowPasses, SweepScan, goods, books, TypeOK, Transaction
  <1>6. OrderHeld'
    BY DEF OrderHeld, WindowPasses, SweepScan, goods, books, TypeOK, Transaction
  <1>7. BasketFull'
    BY DEF BasketFull, WindowPasses, SweepScan, goods, books, TypeOK, Transaction
  <1>8. FreshIds'
    BY DEF FreshIds, WindowPasses, SweepScan, goods, books, TypeOK, Transaction
  <1>9. PaidOnce'
    BY DEF PaidOnce, WindowPasses, SweepScan, goods, books, TypeOK, Transaction
  <1> QED
    BY <1>1, <1>2, <1>3, <1>4, <1>5, <1>6, <1>7, <1>8, <1>9

-----------------------------------------------------------------------------
(* The invariant holds in every reachable state *)

LEMMA InitIInv == Init => IInv
  <1> SUFFICES ASSUME Init
               PROVE  IInv
    OBVIOUS
  <1>0. stock \in [Products -> Nat] /\ price \in [Products -> Nat]
    <2>1. stock \in [Products -> StockLevels] /\ price \in [Products -> PriceLevels]
      BY DEF Init
    <2>2. StockLevels \subseteq Nat /\ PriceLevels \subseteq Nat
      BY LevelsAssumption
    <2> QED
      BY <2>1, <2>2, Zenon
  <1>1. NoOrderRecord \in Order
    BY NothingType DEF NoOrderRecord, Order, Statuses
  <1>2. TypeOK
    <2>1. stock \in [Products -> Int] /\ price \in Amounts /\ onSale \subseteq Products
      BY <1>0 DEF Init, Amounts
    <2>2. cart \in [Users -> Amounts] /\ orders \in [OrderIds -> Order]
      BY <1>1, NothingType DEF Init
    <2>3. payments \in [OrderIds -> Nat] /\ shipments \in [OrderIds -> Nat]
      BY DEF Init
    <2>4. overdue \subseteq OrderIds /\ batch \subseteq OrderIds
      BY DEF Init
    <2>5. tx \in [Workers -> Transaction]
      BY IdleTxType DEF Init
    <2> QED
      BY <2>1, <2>2, <2>3, <2>4, <2>5 DEF TypeOK
  <1>3. UsersKnown /\ LocksExclusive /\ CartHeld /\ OrderHeld /\ BasketFull /\ FreshIds
    BY DEF Init, UsersKnown, LocksExclusive, CartHeld, OrderHeld, BasketFull, FreshIds, IdleTx, NoOrderRecord
  <1>4. StockHeld
    <2>1. \A p \in Products : stock[p] \in Nat
      BY <1>0
    <2>2. \A p \in Products : stock[p] >= 0
      BY <2>1
    <2>3. \A w \in Workers : tx[w].step = "idle"
      BY DEF Init, IdleTx
    <2> QED
      BY <2>2, <2>3 DEF StockHeld
  <1>5. PaidOnce
    BY DEF Init, PaidOnce, NoOrderRecord
  <1> QED
    BY <1>2, <1>3, <1>4, <1>5 DEF IInv

LEMMA ContinueIInv ==
  ASSUME IInv, NEW w \in Workers, Continue(w)
  PROVE  IInv'
  <1>1. CASE Acquire(w)
    BY <1>1, InvAcquireCartRow, InvAcquireRow DEF Acquire
  <1>2. CASE Checkout(w)
    BY <1>2, InvLockProducts, InvReserve, InvEndWithoutCommit, InvCommitCreate
    DEF Checkout, CreateRejects
  <1>3. CASE Direct(w)
    BY <1>3, InvInsertDirect, InvEndWithoutCommit, InvCommitDirect DEF Direct, DirectRejects
  <1>4. CASE Pay(w)
    BY <1>4, InvCheckPay, InvEndWithoutCommit, InvCommitPay DEF Pay, PayRejects
  <1>5. CASE Cancel(w)
    BY <1>5, InvCheckCancel, InvEndWithoutCommit, InvCommitCancel DEF Cancel, CancelRejects
  <1>6. CASE CommitEmptyCart(w)
    BY <1>6, InvCommitEmptyCart
  <1> QED
    BY <1>1, <1>2, <1>3, <1>4, <1>5, <1>6 DEF Continue

LEMMA NextIInv == IInv /\ [Next]_vars => IInv'
  <1> SUFFICES ASSUME IInv, [Next]_vars
               PROVE  IInv'
    OBVIOUS
  <1>1. ASSUME NEW w \in Workers, Continue(w) \/ Fail(w) \/ ResolveDeadlock(w)
        PROVE  IInv'
    BY <1>1, ContinueIInv, InvEndWithoutCommit DEF Fail, ResolveDeadlock
  <1>2. ASSUME NEW w \in Clients, NEW u \in Users, Request(w, u)
        PROVE  IInv'
    <2>1. w \in Workers
      BY DEF Workers
    <2> QED
      BY <1>2, <2>1, InvBeginCreate, InvBeginDirect, InvBeginPay, InvBeginCancel, InvBeginEmptyCart
      DEF Request
  <1>3. ASSUME NEW u \in Users, NEW p \in Products, EditCart(u, p)
        PROVE  IInv'
    BY <1>3, InvAddToCart, InvUpdateCart, InvRemoveFromCart DEF EditCart
  <1>4. ASSUME NEW p \in Products, Administer(p)
        PROVE  IInv'
    BY <1>4, InvAdminister
  <1>5. CASE SweepScan \/ \E o \in OrderIds : WindowPasses(o)
    BY <1>5, InvSweep
  <1>6. CASE SweepNext
    <2>1. PICK o \in batch : BeginCancel(Sweeper, orders[o].user, o)
      BY <1>6 DEF SweepNext
    <2>2. o \in OrderIds /\ Sweeper \in Workers
      BY DEF IInv, TypeOK, Workers
    <2>3. orders[o].user \in Users
      BY <2>1, <2>2 DEF IInv, UsersKnown, BeginCancel
    <2> QED
      BY <2>1, <2>2, <2>3, InvBeginCancel
  <1>7. CASE UNCHANGED vars
    BY <1>7 DEF vars, IInv, TypeOK, UsersKnown, LocksExclusive, CartHeld, StockHeld, OrderHeld,
                BasketFull, FreshIds, PaidOnce
  <1> QED
    BY <1>1, <1>2, <1>3, <1>4, <1>5, <1>6, <1>7 DEF Next

\* The inductive invariant holds in every reachable state.
THEOREM Invariance == Spec => []IInv
  BY InitIInv, NextIInv, PTL DEF Spec

\* Every variable keeps its type, whatever the interleaving.
THEOREM TypeCorrect == Spec => []TypeOK
  <1>1. IInv => TypeOK
    BY DEF IInv
  <1> QED
    BY <1>1, Invariance, PTL

\* Row locks are exclusive, across rollbacks and deadlock aborts.
THEOREM LocksAreExclusive == Spec => []LocksExclusive
  <1>1. IInv => LocksExclusive
    BY DEF IInv
  <1> QED
    BY <1>1, Invariance, PTL

\* No cart row is ordered twice and none in a quantity the cart no longer holds.
THEOREM NoDoubleCheckout == Spec => []CartIsOrdered
  <1>1. IInv => CartIsOrdered
    BY DEF IInv, CartHeld, CartIsOrdered, Basket
  <1> QED
    BY <1>1, Invariance, PTL

\* The shop never sells more than it has, with any number of threads,
\* products and customers.
THEOREM NeverOversold == Spec => []NoOversell
  <1>1. IInv => NoOversell
    <2> SUFFICES ASSUME IInv
                 PROVE  NoOversell
      OBVIOUS
    <2>1. ASSUME NEW p \in Products, NEW w \in Workers, tx[w].step \in {"clear", "insert"}
          PROVE  tx[w].items[p] <= stock[p]
      <3>1. tx[w].items[p] \in Nat /\ stock[p] \in Int /\ stock[p] >= 0
        BY DEF IInv, TypeOK, StockHeld, Transaction, Amounts
      <3>2. tx[w].items[p] > 0 => tx[w].items[p] <= stock[p]
        BY <2>1 DEF IInv, StockHeld
      <3> QED
        BY <3>1, <3>2
    <2> QED
      BY <2>1 DEF IInv, StockHeld, NoOversell
  <1> QED
    BY <1>1, Invariance, PTL

\* An order is paid and shipped exactly once, or not at all.
THEOREM PaidExactlyOnce == Spec => []PaidOnce
  <1>1. IInv => PaidOnce
    BY DEF IInv
  <1> QED
    BY <1>1, Invariance, PTL

-----------------------------------------------------------------------------
(* The transactions implement the ledger *)

LEMMA PlaceRefines ==
  ASSUME IInv, NEW w \in Workers, tx[w].step \in {"clear", "insert"}, PlaceOrder(w)
  PROVE  Ledger!Next
  <1> DEFINE o == tx[w].order
             order == [status |-> "pending", user |-> tx[w].user,
                       items |-> tx[w].items, prices |-> tx[w].prices]
  <1>1. o \in OrderIds /\ orders[o].status = "none"
    BY DEF IInv, FreshIds
  <1>2. orders' = [orders EXCEPT ![o] = order]
    BY DEF PlaceOrder
  <1>3. orders'[o] = order
    BY <1>1, <1>2 DEF IInv, TypeOK
  <1>4. order \in Ledger!Pending
    BY DEF IInv, TypeOK, UsersKnown, Transaction, Ledger!Pending, Ledger!Amounts, Amounts
  <1>5. \E p \in Products : tx[w].items[p] > 0
    BY DEF IInv, BasketFull
  <1>6. \A p \in Products : tx[w].items[p] <= stock[p]
    <2> TAKE p \in Products
    <2>1. tx[w].items[p] \in Nat /\ stock[p] \in Int /\ stock[p] >= 0
      BY DEF IInv, TypeOK, StockHeld, Transaction, Amounts
    <2>2. tx[w].items[p] > 0 => tx[w].items[p] <= stock[p]
      BY DEF IInv, StockHeld
    <2> QED
      BY <2>1, <2>2
  <1>7. stock' = [p \in Products |-> stock[p] - order.items[p]] /\ UNCHANGED payments
    BY DEF PlaceOrder
  <1> HIDE DEF o, order
  <1>8. \E p \in Products : order.items[p] > 0
    BY <1>5 DEF order
  <1>9. \A p \in Products : order.items[p] <= stock[p]
    BY <1>6 DEF order
  <1>10. Ledger!Place(o)
    BY <1>1, <1>2, <1>3, <1>4, <1>7, <1>8, <1>9 DEF Ledger!Place
  <1> QED
    BY <1>1, <1>10 DEF Ledger!Next

LEMMA PayRefines ==
  ASSUME IInv, NEW w \in Workers, CommitPay(w)
  PROVE  Ledger!Next
  <1> DEFINE o == tx[w].order
  <1>1. o \in OrderIds /\ orders[o].status = "pending"
    BY DEF IInv, OrderHeld, CommitPay
  <1>2. payments[o] = 0
    BY <1>1 DEF IInv, PaidOnce
  <1>3. payments' = [payments EXCEPT ![o] = 1]
    BY <1>1, <1>2 DEF CommitPay, IInv, TypeOK
  <1>4. Ledger!Pay(o)
    BY <1>1, <1>3 DEF CommitPay, goods, Ledger!Pay, Ledger!Settle
  <1> QED
    BY <1>1, <1>4 DEF Ledger!Next

LEMMA CancelRefines ==
  ASSUME IInv, NEW w \in Workers, CommitCancel(w)
  PROVE  Ledger!Next
  <1> DEFINE o == tx[w].order
  <1>1. o \in OrderIds /\ orders[o].status = "pending" /\ tx[w].items = orders[o].items
    BY DEF IInv, OrderHeld, CommitCancel
  <1>2. stock' = [p \in Products |-> stock[p] + orders[o].items[p]]
    BY <1>1 DEF CommitCancel
  <1>3. Ledger!Cancel(o)
    BY <1>1, <1>2 DEF CommitCancel, Ledger!Cancel, Ledger!Settle
  <1> QED
    BY <1>1, <1>3 DEF Ledger!Next

LEMMA UpdateProductRefines ==
  ASSUME IInv, NEW p \in Products, NEW s \in StockLevels, NEW c \in PriceLevels,
         UpdateProduct(p, s, c)
  PROVE  Ledger!Next
  <1>1. s \in Nat
    BY LevelsAssumption
  <1>2. stock' = [stock EXCEPT ![p] = s] /\ stock'[p] = s
    BY DEF UpdateProduct, IInv, TypeOK
  <1>3. Ledger!Stocktake(p)
    BY <1>1, <1>2 DEF UpdateProduct, books, Ledger!Stocktake
  <1> QED
    BY <1>3 DEF Ledger!Next

LEMMA StepRefines == IInv /\ [Next]_vars => [Ledger!Next]_(Ledger!vars)
  <1> SUFFICES ASSUME IInv, [Next]_vars, ~UNCHANGED <<stock, orders, payments>>
               PROVE  Ledger!Next
    BY DEF Ledger!vars
  <1>1. ASSUME NEW w \in Workers, Continue(w)
        PROVE  Ledger!Next
    <2>1. CASE CommitCreate(w)
      BY <2>1, PlaceRefines DEF CommitCreate
    <2>2. CASE CommitDirect(w)
      BY <2>2, PlaceRefines DEF CommitDirect
    <2>3. CASE CommitPay(w)
      BY <2>3, PayRefines
    <2>4. CASE CommitCancel(w)
      BY <2>4, CancelRefines
    <2>5. CASE Acquire(w) \/ LockProducts(w) \/ Reserve(w) \/ InsertDirect(w) \/ CheckPay(w)
               \/ CheckCancel(w) \/ CommitEmptyCart(w) \/ Reject(w)
      BY <2>5 DEF Acquire, AcquireCartRow, AcquireRow, LockProducts, Reserve, InsertDirect, CheckPay,
                  CheckCancel, CommitEmptyCart, Reject, goods, books
    <2> QED
      BY <1>1, <2>1, <2>2, <2>3, <2>4, <2>5
      DEF Continue, Checkout, Direct, Pay, Cancel, CreateRejects, DirectRejects, PayRejects,
          CancelRejects
  <1>2. ASSUME NEW w \in Workers, Fail(w) \/ ResolveDeadlock(w)
        PROVE  Ledger!Next
    BY <1>2 DEF Fail, ResolveDeadlock, RollBack, goods, books
  <1>3. ASSUME NEW w \in Clients, NEW u \in Users, Request(w, u)
        PROVE  Ledger!Next
    BY <1>3 DEF Request, BeginCreate, BeginDirect, BeginPay, BeginCancel, BeginEmptyCart, goods, books
  <1>4. ASSUME NEW u \in Users, NEW p \in Products, EditCart(u, p)
        PROVE  Ledger!Next
    BY <1>4 DEF EditCart, AddToCart, UpdateCart, RemoveFromCart, goods, books
  <1>5. ASSUME NEW p \in Products, Administer(p)
        PROVE  Ledger!Next
    BY <1>5, UpdateProductRefines DEF Administer, ToggleProductStatus, books
  <1>6. CASE SweepScan \/ SweepNext \/ \E o \in OrderIds : WindowPasses(o)
    BY <1>6 DEF SweepScan, SweepNext, BeginCancel, WindowPasses, goods, books
  <1>7. CASE UNCHANGED vars
    BY <1>7 DEF vars
  <1> QED
    BY <1>1, <1>2, <1>3, <1>4, <1>5, <1>6, <1>7 DEF Next

\* Whatever the interleaving, the failures and the deadlocks, what customers
\* see of stock, orders and payments is a run of the ledger.
THEOREM Refinement == Spec => LedgerSpec
  <1>1. Init => Ledger!Init
    <2> SUFFICES ASSUME Init
                 PROVE  Ledger!Init
      OBVIOUS
    <2>1. stock \in [Products -> StockLevels] /\ StockLevels \subseteq Nat
      BY LevelsAssumption DEF Init
    <2>2. stock \in Ledger!Amounts
      BY <2>1, Zenon DEF Ledger!Amounts
    <2> QED
      BY <2>2 DEF Init, NoOrderRecord, Ledger!Init
  <1> QED
    BY <1>1, StepRefines, Invariance, PTL DEF Spec, LedgerSpec, Ledger!Spec

-----------------------------------------------------------------------------
(* The price of a direct checkout *)

\* A transaction that has inserted its order keeps items and prices.
LEMMA InsertKept ==
  ASSUME IInv, [Next]_vars, NEW v \in Workers, tx'[v].step = "insert", ~InsertDirect(v)
  PROVE  tx[v].step = "insert" /\ tx'[v].items = tx[v].items /\ tx'[v].prices = tx[v].prices
  <1> DEFINE Kept == tx[v].step = "insert" /\ tx'[v].items = tx[v].items /\ tx'[v].prices = tx[v].prices
  <1>1. tx \in [Workers -> Transaction]
    BY DEF IInv, TypeOK
  <1>2. \A r \in Transaction : DOMAIN r = {"step", "user", "order", "items", "prices", "todo", "held"}
    BY DEF Transaction
  <1>3. ASSUME NEW w \in Workers, NEW dead, tx' = EndTx(w, dead)
        PROVE  Kept
    BY <1>1, <1>3 DEF EndTx, IdleTx, Transaction
  <1>4. ASSUME NEW w \in Workers, Acquire(w)
        PROVE  Kept
    <2>1. CASE \E p \in Products : AcquireCartRow(w, p)
      BY <1>1, <2>1 DEF AcquireCartRow, Transaction
    <2>2. CASE \E r \in Rows : AcquireRow(w, r)
      BY <1>1, <2>2 DEF AcquireRow, Transaction
    <2> QED
      BY <1>4, <2>1, <2>2 DEF Acquire
  <1>5. ASSUME NEW w \in Workers, LockProducts(w) \/ Reserve(w) \/ CheckPay(w) \/ CheckCancel(w)
        PROVE  Kept
    <2>1. PICK r : tx' = [tx EXCEPT ![w] = r] /\ r.step # "insert"
      <3>1. CASE LockProducts(w)
        <4> DEFINE rows == {ProductRow(p) : p \in Basket(w) \intersect onSale}
                   r == [tx[w] EXCEPT !.step = "products", !.todo = rows]
        <4>1. tx' = [tx EXCEPT ![w] = r] /\ r.step # "insert"
          BY <1>1, <3>1 DEF LockProducts, Transaction
        <4> QED
          BY <4>1
      <3>2. CASE Reserve(w)
        <4> DEFINE rows == CartRows(tx[w].user) \ tx[w].held
                   r(o) == [tx[w] EXCEPT !.step = "clear", !.order = o, !.todo = rows]
        <4>1. \E o \in UnusedIds : tx' = [tx EXCEPT ![w] = r(o)]
          BY <1>1, <3>2 DEF Reserve
        <4>2. \A o : r(o).step # "insert"
          BY <1>1 DEF Transaction
        <4> QED
          BY <4>1, <4>2
      <3>3. CASE CheckPay(w)
        <4> DEFINE r == [tx[w] EXCEPT !.step = "paying"]
        <4>1. tx' = [tx EXCEPT ![w] = r] /\ r.step # "insert"
          BY <1>1, <3>3 DEF CheckPay, Transaction
        <4> QED
          BY <4>1
      <3>4. CASE CheckCancel(w)
        <4> DEFINE items == orders[tx[w].order].items
                   rows == {ProductRow(p) : p \in {p \in Products : items[p] > 0}}
                   r == [tx[w] EXCEPT !.step = "restock", !.items = items, !.todo = rows]
        <4>1. tx' = [tx EXCEPT ![w] = r] /\ r.step # "insert"
          BY <1>1, <3>4 DEF CheckCancel, Transaction
        <4> QED
          BY <4>1
      <3> QED
        BY <1>5, <3>1, <3>2, <3>3, <3>4
    <2> QED
      BY <1>1, <2>1
  <1>6. ASSUME NEW w \in Workers, InsertDirect(w)
        PROVE  Kept
    <2>1. w # v
      BY <1>6
    <2> QED
      BY <1>1, <1>6, <2>1 DEF InsertDirect
  <1>7. ASSUME NEW w \in Workers,
               Reject(w) \/ RollBack(w) \/ CommitCreate(w) \/ CommitDirect(w) \/ CommitPay(w)
               \/ CommitCancel(w) \/ CommitEmptyCart(w)
        PROVE  Kept
    <2>1. \E dead : tx' = EndTx(w, dead)
      BY <1>7 DEF Reject, RollBack, CommitCreate, DeleteCartRows, CommitDirect, CommitPay, CommitCancel,
                  CommitEmptyCart
    <2> QED
      BY <1>3, <2>1
  <1>8. ASSUME NEW w \in Workers, NEW u,
               \/ BeginCreate(w, u) \/ BeginEmptyCart(w, u)
               \/ \E p \in Products, q \in Quantities : BeginDirect(w, u, p, q)
               \/ \E o \in OrderIds : BeginPay(w, u, o) \/ BeginCancel(w, u, o)
        PROVE  Kept
    <2>1. \A u2 \in Workers \ {w} : tx'[u2] = tx[u2]
      BY <1>1, <1>8 DEF BeginCreate, BeginEmptyCart, BeginDirect, BeginPay, BeginCancel
    <2>2. tx'[w].step # "insert"
      BY <1>1, <1>8 DEF BeginCreate, BeginEmptyCart, BeginDirect, BeginPay, BeginCancel, IdleTx
    <2> QED
      BY <2>1, <2>2
  <1>9. ASSUME UNCHANGED tx
        PROVE  Kept
    BY <1>9
  <1>10. ASSUME NEW u \in Users, NEW p \in Products, RemoveFromCart(u, p)
         PROVE  Kept
    BY <1>1, <1>10 DEF RemoveFromCart, Transaction
  <1> HIDE DEF Kept
  <1>11. ASSUME NEW w \in Workers, Continue(w) \/ Fail(w) \/ ResolveDeadlock(w)
         PROVE  Kept
    BY <1>4, <1>5, <1>6, <1>7, <1>11
    DEF Continue, Checkout, CreateRejects, Direct, DirectRejects, Pay, PayRejects, Cancel, CancelRejects,
        Fail, ResolveDeadlock
  <1>12. ASSUME NEW w \in Clients, NEW u \in Users, Request(w, u)
         PROVE  Kept
    <2>1. w \in Workers
      BY DEF Workers
    <2> QED
      BY <1>8, <1>12, <2>1 DEF Request
  <1>13. ASSUME SweepNext
         PROVE  Kept
    <2>1. Sweeper \in Workers /\ batch \subseteq OrderIds
      BY DEF Workers, IInv, TypeOK
    <2> QED
      BY <1>8, <1>13, <2>1 DEF SweepNext
  <1>14. ASSUME NEW u \in Users, NEW p \in Products, EditCart(u, p)
         PROVE  Kept
    BY <1>9, <1>10, <1>14 DEF EditCart, AddToCart, UpdateCart
  <1>15. ASSUME \/ \E p \in Products : Administer(p)
                \/ SweepScan \/ UNCHANGED vars
                \/ \E o \in OrderIds : WindowPasses(o)
         PROVE  Kept
    BY <1>9, <1>15 DEF Administer, UpdateProduct, ToggleProductStatus, SweepScan, WindowPasses, vars
  <1> QED
    <2>1. Kept
      BY <1>11, <1>12, <1>13, <1>14, <1>15 DEF Next
    <2> QED
      BY <2>1 DEF Kept

\* A price changes only where no transaction holds the product's row.
LEMMA PriceHeld ==
  ASSUME IInv, [Next]_vars, NEW p \in Products, NEW w \in Workers, ProductRow(p) \in tx[w].held
  PROVE  price'[p] = price[p]
  <1>1. \/ UNCHANGED price
        \/ \E q \in Products, s \in StockLevels, c \in PriceLevels : UpdateProduct(q, s, c)
    <2>1. ASSUME NEW v \in Workers, Acquire(v) \/ Checkout(v)
          PROVE  UNCHANGED price
      BY <2>1 DEF goods, Acquire, AcquireCartRow, AcquireRow, Checkout, LockProducts, Reserve, CreateRejects,
                  Reject, CommitCreate, PlaceOrder
    <2>2. ASSUME NEW v \in Workers, Direct(v) \/ Pay(v)
          PROVE  UNCHANGED price
      BY <2>2 DEF goods, Direct, InsertDirect, DirectRejects, CommitDirect, PlaceOrder, Reject, Pay, CheckPay,
                  PayRejects, CommitPay
    <2>3. ASSUME NEW v \in Workers,
                 Cancel(v) \/ CommitEmptyCart(v) \/ Fail(v) \/ ResolveDeadlock(v)
          PROVE  UNCHANGED price
      BY <2>3 DEF goods, Cancel, CheckCancel, CancelRejects, Reject, CommitCancel, CommitEmptyCart, Fail,
                  ResolveDeadlock, RollBack
    <2>4. ASSUME NEW v \in Clients, NEW u \in Users, Request(v, u)
          PROVE  UNCHANGED price
      BY <2>4 DEF goods, Request, BeginCreate, BeginDirect, BeginPay, BeginCancel, BeginEmptyCart
    <2>5. ASSUME NEW u \in Users, NEW q \in Products, EditCart(u, q)
          PROVE  UNCHANGED price
      BY <2>5 DEF goods, EditCart, AddToCart, UpdateCart, RemoveFromCart
    <2>6. ASSUME SweepScan \/ SweepNext \/ UNCHANGED vars \/ \E o \in OrderIds : WindowPasses(o)
          PROVE  UNCHANGED price
      BY <2>6 DEF goods, vars, SweepScan, SweepNext, BeginCancel, WindowPasses
    <2> QED
      BY <2>1, <2>2, <2>3, <2>4, <2>5, <2>6 DEF Next, Continue, Administer, ToggleProductStatus
  <1>2. ASSUME NEW q \in Products, NEW s \in StockLevels, NEW c \in PriceLevels, UpdateProduct(q, s, c)
        PROVE  price'[p] = price[p]
    <2>1. q # p
      BY <1>2 DEF UpdateProduct
    <2> QED
      BY <1>2, <2>1 DEF UpdateProduct, IInv, TypeOK, Amounts
  <1> QED
    BY <1>1, <1>2

\* create_direct charges the price of the row it has locked, which stays until
\* its commit.
THEOREM DirectPricesCurrent == Spec => []DirectPriceCurrent
  <1>1. Init => DirectPriceCurrent
    BY DEF Init, DirectPriceCurrent, IdleTx
  <1>2. IInv /\ DirectPriceCurrent /\ [Next]_vars => DirectPriceCurrent'
    <2> SUFFICES ASSUME IInv, DirectPriceCurrent, [Next]_vars,
                        NEW v \in Workers, tx'[v].step = "insert",
                        NEW p \in Products, tx'[v].items[p] > 0
                 PROVE  tx'[v].prices[p] = price'[p]
      BY DEF DirectPriceCurrent, Basket
    <2>1. CASE InsertDirect(v)
      <3> DEFINE prices == [q \in Products |-> IF q \in Basket(v) THEN price[q] ELSE 0]
      <3>1. UNCHANGED price
        BY <2>1 DEF InsertDirect, goods
      <3>2. tx'[v].items = tx[v].items /\ tx'[v].prices = prices
        <4>1. tx[v] \in Transaction /\ tx \in [Workers -> Transaction]
          BY DEF IInv, TypeOK
        <4>2. PICK o \in UnusedIds : tx' = [tx EXCEPT ![v] = [tx[v] EXCEPT !.step = "insert", !.order = o, !.prices = prices]]
          BY <2>1, <4>1 DEF InsertDirect
        <4> HIDE DEF prices
        <4> QED
          BY <4>1, <4>2 DEF Transaction
      <3>3. p \in Basket(v)
        BY <3>2 DEF Basket
      <3> QED
        BY <3>1, <3>2, <3>3
    <2>2. CASE ~InsertDirect(v)
      <3>1. tx[v].step = "insert" /\ tx'[v].items = tx[v].items /\ tx'[v].prices = tx[v].prices
        BY <2>2, InsertKept
      <3>2. p \in Basket(v) /\ ProductRow(p) \in tx[v].held
        BY <3>1 DEF IInv, StockHeld, Basket
      <3>3. price'[p] = price[p]
        BY <3>2, PriceHeld
      <3> QED
        BY <3>1, <3>2, <3>3 DEF DirectPriceCurrent
    <2> QED
      BY <2>1, <2>2
  <1> QED
    BY <1>1, <1>2, Invariance, PTL DEF Spec

-----------------------------------------------------------------------------
(* The quantities *)

LEMMA NothingWithin == Within(Nothing)
  BY MaxQtyAssumption DEF Within, Nothing

\* What the transactions are about to order or put back.
LEMMA ItemsWithin ==
  ASSUME IInv, AmountsBounded, [Next]_vars, NEW v \in Workers
  PROVE  Within(tx'[v].items)
  <1>1. tx \in [Workers -> Transaction] /\ Within(tx[v].items)
    BY DEF IInv, TypeOK, AmountsBounded
  <1>2. ASSUME NEW w \in Workers, NEW dead, tx' = EndTx(w, dead)
        PROVE  Within(tx'[v].items)
    <2>1. tx'[v].items \in {Nothing, tx[v].items}
      BY <1>1, <1>2 DEF EndTx, IdleTx, Transaction
    <2> QED
      BY <1>1, <2>1, NothingWithin
  <1>3. ASSUME tx'[v].items = tx[v].items
        PROVE  Within(tx'[v].items)
    BY <1>1, <1>3
  <1>4. ASSUME NEW w \in Workers, NEW p \in Products, AcquireCartRow(w, p)
        PROVE  Within(tx'[v].items)
    <2>1. CASE v = w
      <3> DEFINE n == cart[tx[w].user][p]
      <3>1. tx[w].step = "cart"
        BY <1>4 DEF AcquireCartRow
      <3>2. n \in 0..MaxQty
        <4>1. tx[w].user \in Users
          BY <3>1 DEF IInv, UsersKnown
        <4> QED
          BY <4>1 DEF AmountsBounded, Within
      <3>3. tx'[w].items = [tx[w].items EXCEPT ![p] = n]
        BY <1>1, <1>4 DEF AcquireCartRow, Transaction
      <3> HIDE DEF n
      <3>4. tx[w].items \in Amounts
        BY <1>1 DEF Transaction
      <3> QED
        BY <1>1, <2>1, <3>2, <3>3, <3>4 DEF Within, Amounts
    <2>2. CASE v # w
      BY <1>1, <1>3, <1>4, <2>2 DEF AcquireCartRow
    <2> QED
      BY <2>1, <2>2
  <1>5. ASSUME NEW w \in Workers, CheckCancel(w)
        PROVE  Within(tx'[v].items)
    <2>1. CASE v = w
      <3>1. tx'[w].items = orders[tx[w].order].items
        BY <1>1, <1>5 DEF CheckCancel, Transaction
      <3>2. tx[w].order \in OrderIds
        BY <1>5 DEF CheckCancel, IInv, OrderHeld
      <3> QED
        BY <2>1, <3>1, <3>2 DEF AmountsBounded
    <2>2. CASE v # w
      BY <1>1, <1>3, <1>5, <2>2 DEF CheckCancel
    <2> QED
      BY <2>1, <2>2
  <1>6. ASSUME NEW w \in Workers, NEW r \in Rows, AcquireRow(w, r)
        PROVE  Within(tx'[v].items)
    BY <1>1, <1>3, <1>6 DEF AcquireRow, Transaction
  <1>7. ASSUME NEW w \in Workers, LockProducts(w) \/ Reserve(w) \/ InsertDirect(w) \/ CheckPay(w)
        PROVE  Within(tx'[v].items)
    <2>1. CASE LockProducts(w)
      BY <1>1, <1>3, <2>1 DEF LockProducts, Transaction
    <2>2. CASE Reserve(w)
      BY <1>1, <1>3, <2>2 DEF Reserve, Transaction
    <2>3. CASE InsertDirect(w)
      BY <1>1, <1>3, <2>3 DEF InsertDirect, Transaction
    <2>4. CASE CheckPay(w)
      BY <1>1, <1>3, <2>4 DEF CheckPay, Transaction
    <2> QED
      BY <1>7, <2>1, <2>2, <2>3, <2>4
  <1>8. ASSUME NEW w \in Workers,
               Reject(w) \/ RollBack(w) \/ CommitCreate(w) \/ CommitDirect(w) \/ CommitPay(w)
               \/ CommitCancel(w) \/ CommitEmptyCart(w)
        PROVE  Within(tx'[v].items)
    <2>1. \E dead : tx' = EndTx(w, dead)
      BY <1>8 DEF Reject, RollBack, CommitCreate, DeleteCartRows, CommitDirect, CommitPay, CommitCancel,
                  CommitEmptyCart
    <2> QED
      BY <1>2, <2>1
  <1>9. ASSUME NEW w \in Workers, NEW u, NEW p \in Products, NEW q \in Quantities, BeginDirect(w, u, p, q)
        PROVE  Within(tx'[v].items)
    <2>1. CASE v = w
      <3>1. tx'[w].items = [Nothing EXCEPT ![p] = q]
        BY <1>1, <1>9 DEF BeginDirect, IdleTx
      <3>2. q \in 0..MaxQty
        BY MaxQtyAssumption DEF Quantities
      <3> QED
        BY <2>1, <3>1, <3>2, NothingWithin DEF Within, Nothing
    <2>2. CASE v # w
      BY <1>1, <1>3, <1>9, <2>2 DEF BeginDirect
    <2> QED
      BY <2>1, <2>2
  <1>10. ASSUME NEW w \in Workers, NEW u,
                \/ BeginCreate(w, u) \/ BeginEmptyCart(w, u)
                \/ \E o \in OrderIds : BeginPay(w, u, o) \/ BeginCancel(w, u, o)
         PROVE  Within(tx'[v].items)
    <2>1. tx'[v].items \in {Nothing, tx[v].items}
      BY <1>1, <1>10 DEF BeginCreate, BeginEmptyCart, BeginPay, BeginCancel, IdleTx
    <2> QED
      BY <1>1, <2>1, NothingWithin
  <1>11. ASSUME UNCHANGED tx \/ \E u \in Users, p \in Products : RemoveFromCart(u, p)
         PROVE  Within(tx'[v].items)
    BY <1>1, <1>3, <1>11 DEF RemoveFromCart, Transaction
  <1>12. ASSUME NEW w \in Workers, Continue(w) \/ Fail(w) \/ ResolveDeadlock(w)
         PROVE  Within(tx'[v].items)
    BY <1>4, <1>5, <1>6, <1>7, <1>8, <1>12
    DEF Continue, Acquire, Checkout, CreateRejects, Direct, DirectRejects, Pay, PayRejects, Cancel,
        CancelRejects, Fail, ResolveDeadlock
  <1>13. ASSUME NEW w \in Clients, NEW u \in Users, Request(w, u)
         PROVE  Within(tx'[v].items)
    <2>1. w \in Workers
      BY DEF Workers
    <2> QED
      BY <1>9, <1>10, <1>13, <2>1 DEF Request
  <1>14. ASSUME SweepNext
         PROVE  Within(tx'[v].items)
    <2>1. Sweeper \in Workers /\ batch \subseteq OrderIds
      BY DEF Workers, IInv, TypeOK
    <2> QED
      BY <1>10, <1>14, <2>1 DEF SweepNext
  <1>15. ASSUME NEW u \in Users, NEW p \in Products, EditCart(u, p)
         PROVE  Within(tx'[v].items)
    BY <1>11, <1>15 DEF EditCart, AddToCart, UpdateCart
  <1>16. ASSUME \/ \E p \in Products : Administer(p)
                \/ SweepScan \/ UNCHANGED vars
                \/ \E o \in OrderIds : WindowPasses(o)
         PROVE  Within(tx'[v].items)
    BY <1>11, <1>16 DEF Administer, UpdateProduct, ToggleProductStatus, SweepScan, WindowPasses, vars
  <1> QED
    BY <1>12, <1>13, <1>14, <1>15, <1>16 DEF Next

LEMMA CartsWithin ==
  ASSUME IInv, AmountsBounded, [Next]_vars, NEW u \in Users
  PROVE  Within(cart'[u])
  <1>1. cart \in [Users -> Amounts] /\ Within(cart[u]) /\ \A p \in Products : cart[u][p] \in 0..MaxQty
    BY DEF IInv, TypeOK, AmountsBounded, Within
  <1>2. ASSUME UNCHANGED cart
        PROVE  Within(cart'[u])
    BY <1>1, <1>2
  <1>3. ASSUME NEW x \in Users, NEW p \in Products, EditCart(x, p)
        PROVE  Within(cart'[u])
    <2>1. \E n \in 0..MaxQty : cart' = [cart EXCEPT ![x][p] = n]
      <3>1. CASE \E q \in Quantities : AddToCart(x, p, q)
        <4>1. PICK q \in Quantities : AddToCart(x, p, q)
          BY <3>1
        <4>2. cart' = [cart EXCEPT ![x][p] = @ + q] /\ cart[x][p] + q <= MaxQty
          BY <4>1 DEF AddToCart
        <4>3. cart[x][p] \in Nat /\ q \in Nat /\ MaxQty \in Nat
          BY <1>1, MaxQtyAssumption DEF Amounts, Quantities
        <4>4. cart[x][p] + q \in 0..MaxQty
          BY <4>2, <4>3
        <4> QED
          BY <4>2, <4>4
      <3>2. CASE \E q \in Quantities : UpdateCart(x, p, q)
        <4>1. PICK q \in Quantities : UpdateCart(x, p, q)
          BY <3>2
        <4>2. cart' = [cart EXCEPT ![x][p] = q]
          BY <4>1 DEF UpdateCart
        <4>3. q \in 0..MaxQty
          BY MaxQtyAssumption DEF Quantities
        <4> QED
          BY <4>2, <4>3
      <3>3. CASE RemoveFromCart(x, p)
        <4>1. 0 \in 0..MaxQty
          BY MaxQtyAssumption
        <4> QED
          BY <3>3, <4>1 DEF RemoveFromCart
      <3> QED
        BY <1>3, <3>1, <3>2, <3>3 DEF EditCart
    <2> QED
      BY <1>1, <2>1 DEF Within, Amounts
  <1>4. ASSUME NEW w \in Workers, DeleteCartRows(w)
        PROVE  Within(cart'[u])
    <2>1. \A p \in Products : cart'[u][p] \in {0, cart[u][p]}
      BY <1>1, <1>4 DEF DeleteCartRows, Amounts
    <2>2. 0 \in 0..MaxQty
      BY MaxQtyAssumption
    <2> QED
      BY <1>1, <2>1, <2>2 DEF Within
  <1>5. ASSUME NEW w \in Workers, Continue(w)
        PROVE  Within(cart'[u])
    <2>1. CASE CommitCreate(w) \/ CommitEmptyCart(w)
      BY <1>4, <2>1 DEF CommitCreate, CommitEmptyCart
    <2>2. CASE Acquire(w) \/ LockProducts(w) \/ Reserve(w) \/ CreateRejects(w)
      BY <1>2, <2>2 DEF Acquire, AcquireCartRow, AcquireRow, LockProducts, Reserve, CreateRejects, Reject
    <2>3. CASE Direct(w) \/ Pay(w) \/ Cancel(w)
      BY <1>2, <2>3 DEF Direct, InsertDirect, DirectRejects, CommitDirect, Pay, CheckPay, PayRejects,
                        CommitPay, Cancel, CheckCancel, CancelRejects, CommitCancel, Reject
    <2> QED
      BY <1>5, <2>1, <2>2, <2>3 DEF Continue, Checkout
  <1>6. ASSUME NEW w \in Workers, Fail(w) \/ ResolveDeadlock(w)
        PROVE  Within(cart'[u])
    BY <1>2, <1>6 DEF Fail, ResolveDeadlock, RollBack
  <1>7. ASSUME NEW w \in Clients, NEW x \in Users, Request(w, x)
        PROVE  Within(cart'[u])
    BY <1>2, <1>7 DEF Request, BeginCreate, BeginDirect, BeginPay, BeginCancel, BeginEmptyCart
  <1>8. ASSUME \/ \E p \in Products : Administer(p)
               \/ SweepScan \/ SweepNext \/ UNCHANGED vars
               \/ \E o \in OrderIds : WindowPasses(o)
        PROVE  Within(cart'[u])
    BY <1>2, <1>8 DEF Administer, UpdateProduct, ToggleProductStatus, SweepScan, SweepNext, BeginCancel,
                      WindowPasses, vars
  <1> QED
    BY <1>3, <1>5, <1>6, <1>7, <1>8 DEF Next

\* The ways the orders change: one is placed, paid or cancelled.
LEMMA OrdersStep ==
  ASSUME [Next]_vars
  PROVE  \/ UNCHANGED orders
         \/ \E w \in Workers : \/ tx[w].step \in {"clear", "insert"} /\ PlaceOrder(w)
                               \/ CommitPay(w) \/ CommitCancel(w)
  <1> DEFINE Goal == \/ UNCHANGED orders
                     \/ \E w \in Workers : \/ tx[w].step \in {"clear", "insert"} /\ PlaceOrder(w)
                                           \/ CommitPay(w) \/ CommitCancel(w)
  <1>1. ASSUME NEW w \in Workers, Continue(w)
        PROVE  Goal
    <2>1. CASE CommitCreate(w) \/ CommitDirect(w)
      <3>1. tx[w].step \in {"clear", "insert"} /\ PlaceOrder(w)
        BY <2>1 DEF CommitCreate, CommitDirect
      <3> QED
        BY <3>1
    <2>2. CASE CommitPay(w) \/ CommitCancel(w)
      BY <2>2
    <2>3. CASE Acquire(w) \/ LockProducts(w) \/ Reserve(w) \/ InsertDirect(w) \/ CheckPay(w)
               \/ CheckCancel(w) \/ CommitEmptyCart(w) \/ Reject(w)
      <3>1. UNCHANGED orders
        BY <2>3 DEF Acquire, AcquireCartRow, AcquireRow, LockProducts, Reserve, InsertDirect, CheckPay,
                    CheckCancel, CommitEmptyCart, Reject, books
      <3> QED
        BY <3>1
    <2> QED
      BY <1>1, <2>1, <2>2, <2>3
      DEF Continue, Checkout, Direct, Pay, Cancel, CreateRejects, DirectRejects, PayRejects, CancelRejects
  <1>2. ASSUME UNCHANGED orders
        PROVE  Goal
    BY <1>2
  <1> HIDE DEF Goal
  <1>3. ASSUME NEW w \in Workers, Fail(w) \/ ResolveDeadlock(w)
        PROVE  Goal
    BY <1>2, <1>3 DEF Fail, ResolveDeadlock, RollBack, books
  <1>4. ASSUME NEW w \in Clients, NEW u \in Users, Request(w, u)
        PROVE  Goal
    BY <1>2, <1>4 DEF Request, BeginCreate, BeginDirect, BeginPay, BeginCancel, BeginEmptyCart, books
  <1>5. ASSUME NEW u \in Users, NEW p \in Products, EditCart(u, p)
        PROVE  Goal
    BY <1>2, <1>5 DEF EditCart, AddToCart, UpdateCart, RemoveFromCart, books
  <1>6. ASSUME \/ \E p \in Products : Administer(p)
               \/ SweepScan \/ SweepNext \/ UNCHANGED vars
               \/ \E o \in OrderIds : WindowPasses(o)
        PROVE  Goal
    BY <1>2, <1>6 DEF Administer, UpdateProduct, ToggleProductStatus, SweepScan, SweepNext, BeginCancel,
                      WindowPasses, vars, books
  <1> QED
    <2>1. Goal
      BY <1>1, <1>3, <1>4, <1>5, <1>6 DEF Next
    <2> QED
      BY <2>1 DEF Goal

\* What one order becomes when the orders change.
LEMMA OrderBecomes ==
  ASSUME IInv, NEW w \in Workers, NEW o \in OrderIds,
         \/ tx[w].step \in {"clear", "insert"} /\ PlaceOrder(w)
         \/ CommitPay(w) \/ CommitCancel(w)
  PROVE  /\ tx[w].order \in OrderIds
         /\ o # tx[w].order => orders'[o] = orders[o]
         /\ PlaceOrder(w) /\ tx[w].step \in {"clear", "insert"} =>
               /\ orders'[tx[w].order].status = "pending"
               /\ orders'[tx[w].order].items = tx[w].items
         /\ CommitPay(w) => /\ orders'[tx[w].order].status = "paid"
                            /\ orders'[tx[w].order].items = orders[tx[w].order].items
         /\ CommitCancel(w) => /\ orders'[tx[w].order].status = "cancelled"
                               /\ orders'[tx[w].order].items = orders[tx[w].order].items
  <1>1. orders \in [OrderIds -> Order]
    BY DEF IInv, TypeOK
  <1>2. tx[w].order \in OrderIds
    <2>1. CASE tx[w].step \in {"clear", "insert"}
      BY <2>1 DEF IInv, FreshIds
    <2>2. CASE CommitPay(w) \/ CommitCancel(w)
      BY <2>2 DEF IInv, OrderHeld, CommitPay, CommitCancel
    <2> QED
      BY <2>1, <2>2
  <1>3. ASSUME tx[w].step \in {"clear", "insert"}, PlaceOrder(w)
        PROVE  /\ o # tx[w].order => orders'[o] = orders[o]
               /\ orders'[tx[w].order].status = "pending"
               /\ orders'[tx[w].order].items = tx[w].items
    BY <1>1, <1>2, <1>3 DEF PlaceOrder
  <1>4. ASSUME CommitPay(w)
        PROVE  /\ o # tx[w].order => orders'[o] = orders[o]
               /\ orders'[tx[w].order].status = "paid"
               /\ orders'[tx[w].order].items = orders[tx[w].order].items
    BY <1>1, <1>2, <1>4 DEF CommitPay, Order
  <1>5. ASSUME CommitCancel(w)
        PROVE  /\ o # tx[w].order => orders'[o] = orders[o]
               /\ orders'[tx[w].order].status = "cancelled"
               /\ orders'[tx[w].order].items = orders[tx[w].order].items
    BY <1>1, <1>2, <1>5 DEF CommitCancel, Order
  <1> QED
    BY <1>2, <1>3, <1>4, <1>5

\* An order keeps its items, and takes those of the transaction that places it.
LEMMA OrdersWithin ==
  ASSUME IInv, AmountsBounded, [Next]_vars, NEW o \in OrderIds
  PROVE  Within(orders'[o].items)
  <1>1. Within(orders[o].items) /\ \A w \in Workers : Within(tx[w].items)
    BY DEF AmountsBounded
  <1>2. CASE UNCHANGED orders
    BY <1>1, <1>2
  <1>3. ASSUME NEW w \in Workers,
               \/ tx[w].step \in {"clear", "insert"} /\ PlaceOrder(w)
               \/ CommitPay(w) \/ CommitCancel(w)
        PROVE  Within(orders'[o].items)
    <2>1. orders'[o].items \in {orders[o].items, tx[w].items}
      BY <1>3, OrderBecomes
    <2> QED
      BY <1>1, <2>1
  <1> QED
    BY <1>2, <1>3, OrdersStep

Placed == {o \in OrderIds : orders[o].status # "none"}

LEMMA PlacedFinite ==
  ASSUME IInv, AmountsBounded, [Next]_vars
  PROVE  IsFiniteSet(Placed')
  <1>1. IsFiniteSet(Placed)
    BY DEF AmountsBounded, Placed
  <1>2. CASE UNCHANGED orders
    BY <1>1, <1>2 DEF Placed
  <1>3. ASSUME NEW w \in Workers,
               \/ tx[w].step \in {"clear", "insert"} /\ PlaceOrder(w)
               \/ CommitPay(w) \/ CommitCancel(w)
        PROVE  IsFiniteSet(Placed')
    <2>1. \A o \in OrderIds : o # tx[w].order => orders'[o] = orders[o]
      BY <1>3, OrderBecomes
    <2>2. Placed' \subseteq Placed \union {tx[w].order}
      BY <2>1 DEF Placed
    <2>3. IsFiniteSet(Placed \union {tx[w].order})
      BY <1>1, FS_AddElement
    <2> QED
      BY <2>2, <2>3, FS_Subset
  <1> QED
    BY <1>2, <1>3, OrdersStep

LEMMA BoundedAtStart ==
  ASSUME Init
  PROVE  AmountsBounded
  <1>1. /\ \A u \in Users : cart[u] = Nothing
        /\ \A w \in Workers : tx[w].items = Nothing
        /\ \A o \in OrderIds : orders[o].items = Nothing /\ orders[o].status = "none"
    BY DEF Init, IdleTx, NoOrderRecord
  <1>2. {o \in OrderIds : orders[o].status # "none"} = {}
    BY <1>1
  <1> QED
    BY <1>1, <1>2, NothingWithin, FS_EmptySet DEF AmountsBounded

\* No cart row, transaction or order holds a quantity that is negative or above
\* the bound, for any number of users, products, orders and threads: the sums
\* of add_to_cart and the differences of create and cancel stay in range.
THEOREM QuantitiesBounded == Spec => []AmountsBounded
  <1>1. Init => AmountsBounded
    BY BoundedAtStart
  <1>2. IInv /\ AmountsBounded /\ [Next]_vars => AmountsBounded'
    <2> SUFFICES ASSUME IInv, AmountsBounded, [Next]_vars
                 PROVE  AmountsBounded'
      OBVIOUS
    <2>1. \A u \in Users : Within(cart'[u])
      BY CartsWithin
    <2>2. \A w \in Workers : Within(tx'[w].items)
      BY ItemsWithin
    <2>3. \A o \in OrderIds : Within(orders'[o].items)
      BY OrdersWithin
    <2>4. IsFiniteSet({o \in OrderIds : orders'[o].status # "none"})
      BY PlacedFinite DEF Placed
    <2> QED
      BY <2>1, <2>2, <2>3, <2>4 DEF AmountsBounded, Within
  <1> QED
    BY <1>1, <1>2, Invariance, PTL DEF Spec

\* The units of p that Reserved counts, and those of one order.
Units(p) == {unit \in OrderIds \X Quantities :
               /\ orders[unit[1]].status \in {"pending", "paid"}
               /\ unit[2] <= orders[unit[1]].items[p]}

UnitsOf(o, n) == {o} \X (1..n)

LEMMA UnitsFinite ==
  ASSUME AmountsBounded, NEW p \in Products
  PROVE  IsFiniteSet(Units(p))
  <1>1. IsFiniteSet(Placed)
    BY DEF AmountsBounded, Placed
  <1>2. IsFiniteSet(Quantities)
    BY MaxQtyAssumption, FS_Interval DEF Quantities
  <1>3. IsFiniteSet(Placed \X Quantities)
    BY <1>1, <1>2, FS_Product
  <1>4. Units(p) \subseteq Placed \X Quantities
    BY DEF Units, Placed
  <1> QED
    BY <1>3, <1>4, FS_Subset

LEMMA UnitsOfCount ==
  ASSUME NEW o, NEW n \in 0..MaxQty
  PROVE  IsFiniteSet(UnitsOf(o, n)) /\ Cardinality(UnitsOf(o, n)) = n
  <1>1. n \in Nat
    BY MaxQtyAssumption
  <1>2. IsFiniteSet(1..n) /\ Cardinality(1..n) = n
    BY <1>1, FS_Interval
  <1>3. IsFiniteSet({o}) /\ Cardinality({o}) = 1
    BY FS_Singleton
  <1>4. IsFiniteSet({o} \X (1..n)) /\ Cardinality({o} \X (1..n)) = Cardinality({o}) * Cardinality(1..n)
    BY <1>2, <1>3, FS_Product
  <1> QED
    BY <1>1, <1>2, <1>3, <1>4 DEF UnitsOf

\* Units come and go with whole orders: a disjoint set is added, a subset taken.
LEMMA UnitsAdded ==
  ASSUME NEW S, IsFiniteSet(S), NEW o, NEW n \in 0..MaxQty, S \intersect UnitsOf(o, n) = {}
  PROVE  Cardinality(S \union UnitsOf(o, n)) = Cardinality(S) + n
  <1>1. IsFiniteSet(UnitsOf(o, n)) /\ Cardinality(UnitsOf(o, n)) = n
    BY UnitsOfCount
  <1>2. Cardinality(S \union UnitsOf(o, n)) = Cardinality(S) + n - Cardinality({})
    BY <1>1, FS_Union
  <1>3. Cardinality({}) = 0
    BY FS_EmptySet
  <1>4. Cardinality(S) \in Nat /\ n \in Nat
    BY FS_CardinalityType, MaxQtyAssumption
  <1> QED
    BY <1>2, <1>3, <1>4

LEMMA UnitsTaken ==
  ASSUME NEW S, IsFiniteSet(S), NEW o, NEW n \in 0..MaxQty, UnitsOf(o, n) \subseteq S
  PROVE  Cardinality(S \ UnitsOf(o, n)) = Cardinality(S) - n
  <1>1. Cardinality(UnitsOf(o, n)) = n
    BY UnitsOfCount
  <1>2. S \intersect UnitsOf(o, n) = UnitsOf(o, n)
    OBVIOUS
  <1> QED
    BY <1>1, <1>2, FS_Difference

\* Placing takes from the stock the units the order reserves.
LEMMA PlaceConserves ==
  ASSUME IInv, AmountsBounded, NEW w \in Workers, NEW p \in Products,
         tx[w].step \in {"clear", "insert"}, PlaceOrder(w)
  PROVE  stock'[p] + Reserved(p)' = stock[p] + Reserved(p)
  <1> DEFINE n == tx[w].items[p]
             x == tx[w].order
  <1>1. n \in 0..MaxQty /\ x \in OrderIds /\ orders[x].status = "none"
    BY DEF IInv, FreshIds, AmountsBounded, Within
  <1>2. /\ \A o \in OrderIds : o # x => orders'[o] = orders[o]
        /\ orders'[x].status = "pending" /\ orders'[x].items[p] = n
    BY OrderBecomes, <1>1
  <1>3. stock'[p] = stock[p] - n /\ stock[p] \in Int
    BY DEF PlaceOrder, IInv, TypeOK
  <1> HIDE DEF n, x
  <1>4. Units(p) \intersect UnitsOf(x, n) = {}
    BY <1>1 DEF Units, UnitsOf
  <1>5. Units(p)' = Units(p) \union UnitsOf(x, n)
    <2>1. ASSUME NEW o \in OrderIds, NEW k \in Quantities
          PROVE  <<o, k>> \in Units(p)' <=> <<o, k>> \in Units(p) \union UnitsOf(x, n)
      <3>1. CASE o = x
        BY <1>1, <1>2, <3>1, MaxQtyAssumption DEF Units, UnitsOf, Quantities
      <3>2. CASE o # x
        BY <1>2, <3>2 DEF Units, UnitsOf
      <3> QED
        BY <3>1, <3>2
    <2>2. UnitsOf(x, n) \subseteq OrderIds \X Quantities
      BY <1>1, MaxQtyAssumption DEF UnitsOf, Quantities
    <2>3. Units(p)' \subseteq OrderIds \X Quantities /\ Units(p) \subseteq OrderIds \X Quantities
      BY DEF Units
    <2> QED
      BY <2>1, <2>2, <2>3
  <1>6. Reserved(p)' = Reserved(p) + n /\ Reserved(p) \in Nat
    BY <1>1, <1>4, <1>5, UnitsFinite, UnitsAdded, FS_CardinalityType DEF Reserved, Units
  <1>7. n \in Int
    BY <1>1, MaxQtyAssumption
  <1> QED
    BY <1>3, <1>6, <1>7

\* Cancelling puts back the units the order reserved.
LEMMA CancelConserves ==
  ASSUME IInv, AmountsBounded, NEW w \in Workers, NEW p \in Products, CommitCancel(w)
  PROVE  stock'[p] + Reserved(p)' = stock[p] + Reserved(p)
  <1> DEFINE n == tx[w].items[p]
             x == tx[w].order
  <1>1. /\ n \in 0..MaxQty /\ x \in OrderIds /\ orders[x].status = "pending"
        /\ orders[x].items[p] = n
    BY DEF IInv, OrderHeld, AmountsBounded, Within, CommitCancel
  <1>2. /\ \A o \in OrderIds : o # x => orders'[o] = orders[o]
        /\ orders'[x].status = "cancelled"
    BY OrderBecomes, <1>1
  <1>3. stock'[p] = stock[p] + n /\ stock[p] \in Int
    BY DEF CommitCancel, IInv, TypeOK
  <1> HIDE DEF n, x
  <1>4. UnitsOf(x, n) \subseteq Units(p)
    BY <1>1, MaxQtyAssumption DEF Units, UnitsOf, Quantities
  <1>5. Units(p)' = Units(p) \ UnitsOf(x, n)
    <2>1. ASSUME NEW o \in OrderIds, NEW k \in Quantities
          PROVE  <<o, k>> \in Units(p)' <=> <<o, k>> \in Units(p) \ UnitsOf(x, n)
      <3>1. CASE o = x
        BY <1>1, <1>2, <3>1, MaxQtyAssumption DEF Units, UnitsOf, Quantities
      <3>2. CASE o # x
        BY <1>2, <3>2 DEF Units, UnitsOf
      <3> QED
        BY <3>1, <3>2
    <2>2. Units(p)' \subseteq OrderIds \X Quantities /\ Units(p) \subseteq OrderIds \X Quantities
      BY DEF Units
    <2> QED
      BY <2>1, <2>2
  <1>6. Reserved(p)' = Reserved(p) - n /\ Reserved(p) \in Nat
    BY <1>1, <1>4, <1>5, UnitsFinite, UnitsTaken, FS_CardinalityType DEF Reserved, Units
  <1>7. n \in Int
    BY <1>1, MaxQtyAssumption
  <1> QED
    BY <1>3, <1>6, <1>7

\* A paid order reserves what it reserved when it was pending.
LEMMA PayConserves ==
  ASSUME IInv, NEW w \in Workers, NEW p \in Products, CommitPay(w)
  PROVE  stock'[p] + Reserved(p)' = stock[p] + Reserved(p)
  <1> DEFINE x == tx[w].order
  <1>1. x \in OrderIds /\ orders[x].status = "pending"
    BY DEF IInv, OrderHeld, CommitPay
  <1>2. /\ \A o \in OrderIds : o # x => orders'[o] = orders[o]
        /\ orders'[x].status = "paid" /\ orders'[x].items = orders[x].items
    BY OrderBecomes, <1>1
  <1>3. stock' = stock
    BY DEF CommitPay, goods
  <1> HIDE DEF x
  <1>4. \A o \in OrderIds : /\ orders'[o].items = orders[o].items
                            /\ orders'[o].status \in {"pending", "paid"}
                                  <=> orders[o].status \in {"pending", "paid"}
    BY <1>1, <1>2
  <1>5. Units(p)' = Units(p)
    BY <1>4 DEF Units
  <1> QED
    BY <1>3, <1>5 DEF Reserved, Units

\* Whatever transactions interleave, a step that changes an order moves its
\* units between the stock and the orders and loses or makes none: create takes
\* them (order/service.py:52-58), cancel puts back the same ones (240-249), once.
THEOREM StockIsConserved == Spec => StockConserved
  <1> DEFINE Moves == orders' # orders =>
                        \A p \in Products : stock'[p] + Reserved(p)' = stock[p] + Reserved(p)
  <1>1. IInv /\ AmountsBounded /\ [Next]_vars => [Moves]_vars
    <2> SUFFICES ASSUME IInv, AmountsBounded, [Next]_vars, orders' # orders, NEW p \in Products
                 PROVE  stock'[p] + Reserved(p)' = stock[p] + Reserved(p)
      OBVIOUS
    <2>1. PICK w \in Workers : \/ tx[w].step \in {"clear", "insert"} /\ PlaceOrder(w)
                              \/ CommitPay(w) \/ CommitCancel(w)
      BY OrdersStep
    <2> QED
      BY <2>1, PlaceConserves, PayConserves, CancelConserves
  <1> QED
    BY <1>1, Invariance, QuantitiesBounded, PTL DEF Spec, StockConserved

-----------------------------------------------------------------------------
(* Orders that were placed *)

\* An operation of the ledger keeps the orders it is not about, and settles only
\* one that is pending.
LEMMA LedgerKeeps ==
  ASSUME IInv, Ledger!Next, NEW o \in OrderIds, orders[o].status # "none"
  PROVE  /\ orders'[o].status # "none"
         /\ orders'[o].user = orders[o].user
         /\ orders'[o].items = orders[o].items
         /\ orders'[o].prices = orders[o].prices
         /\ orders[o].status # "pending" => orders'[o].status = orders[o].status
  <1>1. orders \in [OrderIds -> Order]
    BY DEF IInv, TypeOK
  <1>2. \A r \in Order : DOMAIN r = {"status", "user", "items", "prices"}
    BY DEF Order
  <1>3. ASSUME NEW x \in OrderIds, Ledger!Place(x)
        PROVE  orders'[o] = orders[o]
    BY <1>1, <1>3 DEF Ledger!Place
  <1>4. ASSUME NEW x \in OrderIds, NEW status \in {"paid", "cancelled"}, Ledger!Settle(x, status)
        PROVE  /\ orders'[o].status # "none"
               /\ orders'[o].user = orders[o].user
               /\ orders'[o].items = orders[o].items
               /\ orders'[o].prices = orders[o].prices
               /\ orders[o].status # "pending" => orders'[o].status = orders[o].status
    <2>1. orders' = [orders EXCEPT ![x].status = status] /\ orders[x].status = "pending"
      BY <1>4 DEF Ledger!Settle
    <2>2. CASE o = x
      <3>1. orders'[o] = [orders[o] EXCEPT !.status = status] /\ orders[o].status = "pending"
        BY <1>1, <2>1, <2>2
      <3>2. orders[o] \in Order
        BY <1>1
      <3> QED
        BY <3>1, <3>2, <1>2, <2>1, <2>2
    <2>3. CASE o # x
      BY <1>1, <2>1, <2>3
    <2> QED
      BY <2>2, <2>3
  <1>5. ASSUME NEW p \in Products, Ledger!Stocktake(p)
        PROVE  orders'[o] = orders[o]
    BY <1>5 DEF Ledger!Stocktake
  <1> QED
    BY <1>3, <1>4, <1>5 DEF Ledger!Next, Ledger!Pay, Ledger!Cancel

\* Whoever races to settle an order (pay, cancel and the sweeper check its status
\* under its row lock, order/service.py:178-195, 233-241), what was settled stays,
\* and no order is ever placed over another one.
THEOREM KeepsOrders == Spec => OrdersKept
  <1> DEFINE Kept(o) ==
                /\ orders[o].status # "none" =>
                      /\ orders'[o].status # "none"
                      /\ orders'[o].user = orders[o].user
                      /\ orders'[o].items = orders[o].items
                      /\ orders'[o].prices = orders[o].prices
                /\ orders[o].status \in {"paid", "cancelled"} =>
                      /\ orders'[o].status = orders[o].status
                      /\ payments'[o] = payments[o]
                      /\ shipments'[o] = shipments[o]
  <1>1. IInv /\ IInv' /\ [Next]_vars => [\A o \in OrderIds : Kept(o)]_vars
    <2> SUFFICES ASSUME IInv, IInv', [Next]_vars, NEW o \in OrderIds
                 PROVE  Kept(o)
      OBVIOUS
    <2>1. Ledger!Next \/ UNCHANGED <<stock, orders, payments>>
      BY StepRefines DEF Ledger!vars
    <2>2. orders[o].status # "none" =>
             /\ orders'[o].status # "none"
             /\ orders'[o].user = orders[o].user
             /\ orders'[o].items = orders[o].items
             /\ orders'[o].prices = orders[o].prices
             /\ orders[o].status # "pending" => orders'[o].status = orders[o].status
      BY <2>1, LedgerKeeps
    <2>3. /\ orders'[o].status = orders[o].status => payments'[o] = payments[o]
          /\ orders'[o].status = orders[o].status => shipments'[o] = shipments[o]
      <3>1. PaidOnce /\ PaidOnce'
        BY DEF IInv
      <3> QED
        BY <3>1 DEF PaidOnce
    <2> QED
      BY <2>2, <2>3
  <1> QED
    BY <1>1, Invariance, PTL DEF Spec, OrdersKept

=============================================================================
