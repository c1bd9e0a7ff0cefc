------------------------------ MODULE StockBook ------------------------------
(***************************************************************************)
(* What the order and inventory services promise: a stock book in which    *)
(* every business operation is one indivisible step.  OrderStock, which    *)
(* interleaves the SQL statements of concurrent requests, implements it.   *)
(***************************************************************************)
EXTENDS StockModel

VARIABLES
  inventory,  \* the balance of every inventory row
  orders,     \* the accepted orders
  applied     \* the adjustments that have taken effect

vars == <<inventory, orders, applied>>

Init ==
  /\ inventory = [i \in Item |-> [onHand |-> InitialOnHand[i], reserved |-> 0]]
  /\ orders = [e \in ExtId |-> NoOrder]
  /\ applied = {}

\* The allocation gives every line of the order, and no other line, one of the
\* rows that store its SKU.
WellAllocated(row) ==
  \A l \in Line : IF l \in LinesOf[row.payload]
                  THEN row.alloc[l] \in Candidates[l]
                  ELSE row.alloc[l] = NoItem

\* A new order reserves all its lines at once, only from available units.
Place(e) ==
  /\ orders[e] = NoOrder
  /\ \E row \in OrderRow :
       /\ row.status \in {"pending", "paid"}
       /\ WellAllocated(row)
       /\ \A x \in ExtId : orders[x] = NoOrder \/ orders[x].evt # row.evt
       /\ \A i \in Item : QuantityAt(row, i) <= Available(inventory[i])
       /\ orders' = [orders EXCEPT ![e] = row]
       /\ inventory' = [i \in Item |->
            [inventory[i] EXCEPT !.reserved = @ + QuantityAt(row, i)]]
  /\ UNCHANGED applied

\* A status change without effect on the stock.
Advance(e, s) ==
  /\ orders[e] # NoOrder
  /\ s \in AllowedTransitions[orders[e].status] \ {"cancelled", "dispatched"}
  /\ orders' = [orders EXCEPT ![e].status = s]
  /\ UNCHANGED <<inventory, applied>>

\* Cancellation gives back exactly what the order reserved.
Cancel(e) ==
  /\ orders[e] # NoOrder
  /\ "cancelled" \in AllowedTransitions[orders[e].status]
  /\ orders' = [orders EXCEPT ![e].status = "cancelled"]
  /\ inventory' = [i \in Item |->
       [inventory[i] EXCEPT !.reserved = @ - QuantityAt(orders[e], i)]]
  /\ UNCHANGED applied

\* Dispatch takes the reserved units off the shelf.
Dispatch(e) ==
  /\ orders[e] # NoOrder
  /\ "dispatched" \in AllowedTransitions[orders[e].status]
  /\ orders' = [orders EXCEPT ![e].status = "dispatched"]
  /\ inventory' = [i \in Item |->
       LET q == QuantityAt(orders[e], i) IN
       [onHand |-> inventory[i].onHand - q,
        reserved |-> inventory[i].reserved - q]]
  /\ UNCHANGED applied

\* A correction of the stock on hand takes effect once per idempotency key and
\* never takes a reserved unit.
Adjust(a) ==
  /\ a.key \notin {x.key : x \in applied}
  /\ inventory[a.item].onHand + a.delta >= inventory[a.item].reserved
  /\ inventory' = [inventory EXCEPT ![a.item].onHand = @ + a.delta]
  /\ applied' = applied \cup {a}
  /\ UNCHANGED orders

Next ==
  \/ \E e \in ExtId : Place(e) \/ Cancel(e) \/ Dispatch(e)
  \/ \E e \in ExtId, s \in Status : Advance(e, s)
  \/ \E a \in Adjustment : Adjust(a)

Spec == Init /\ [][Next]_vars
=============================================================================
