----------------------------- MODULE ShopLedger -----------------------------
(***************************************************************************)
(* What the shop promises about stock and orders: every order is placed,   *)
(* paid and cancelled in one indivisible step, as if requests came one at  *)
(* a time.  OrderService, with its row locks, unlocked reads, rollbacks    *)
(* and sweeper, implements it.                                             *)
(***************************************************************************)
EXTENDS Integers, FiniteSets

CONSTANTS Users, Products, OrderIds

VARIABLES stock, orders, payments

vars == <<stock, orders, payments>>

Amounts == [Products -> Nat]
Pending == [status : {"pending"}, user : Users, items : Amounts, prices : Amounts]

Init ==
    /\ stock \in Amounts
    /\ \A o \in OrderIds : orders[o].status = "none"
    /\ payments = [o \in OrderIds |-> 0]

\* A new order takes what it orders out of the stock.
Place(o) ==
    LET order == orders'[o] IN
    /\ orders[o].status = "none"
    /\ order \in Pending
    /\ \E p \in Products : order.items[p] > 0
    /\ \A p \in Products : order.items[p] <= stock[p]
    /\ orders' = [orders EXCEPT ![o] = order]
    /\ stock' = [p \in Products |-> stock[p] - order.items[p]]
    /\ UNCHANGED payments

Settle(o, status) ==
    /\ orders[o].status = "pending"
    /\ orders' = [orders EXCEPT ![o].status = status]

\* One payment, once, of an order that is still pending.
Pay(o) ==
    /\ Settle(o, "paid")
    /\ payments' = [payments EXCEPT ![o] = 1]
    /\ UNCHANGED stock

\* Everything an unpaid order took goes back.
Cancel(o) ==
    /\ Settle(o, "cancelled")
    /\ stock' = [p \in Products |-> stock[p] + orders[o].items[p]]
    /\ UNCHANGED payments

\* The administrator writes a new stock value.
Stocktake(p) ==
    /\ stock'[p] \in Nat
    /\ stock' = [stock EXCEPT ![p] = stock'[p]]
    /\ UNCHANGED <<orders, payments>>

Next ==
    \/ \E o \in OrderIds : Place(o) \/ Pay(o) \/ Cancel(o)
    \/ \E p \in Products : Stocktake(p)

Spec == Init /\ [][Next]_vars

=============================================================================
