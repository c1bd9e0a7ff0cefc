----------------------------- MODULE StockModel -----------------------------
(***************************************************************************)
(* Vocabulary shared by the order and inventory modules: the rows of the   *)
(* tables orders, order_items and inventory_items, the order state machine *)
(* and the quantities an order line holds at an inventory item.            *)
(*                                                                         *)
(* A marketplace order is identified by its external id (the unique key    *)
(* marketplace / account / external order id).  What is hashed into        *)
(* source_payload_hash is one Payload value: two deliveries have the same  *)
(* hash exactly when they carry the same Payload.                          *)
(***************************************************************************)
EXTENDS Integers, FiniteSets

CONSTANTS
  Item,          \* inventory rows, one per (sku, storage location)
  ExtId,         \* external order ids of one marketplace account
  EventId,       \* source event ids of its webhooks
  Payload,       \* business contents of an order, as hashed
  Line,          \* external line ids
  LinesOf,       \* the lines of a payload
  Quantity,      \* the quantity of a line
  Candidates,    \* the inventory rows that store a line's SKU
  FirstStatus,   \* the status a payload asks for
  InitialOnHand, \* stock on hand before the first order
  Adjustment,    \* adjustment commands: idempotency key, inventory row, delta
  NoItem,        \* a line without inventory row
  NoOrder        \* no orders row

\* The enum OrderStatus.
Status == {"pending", "paid", "processing", "dispatched", "delivered",
           "cancelled", "returned", "refunded"}

\* The table ALLOWED_TRANSITIONS of the order domain.
AllowedTransitions ==
  [s \in Status |->
     CASE s = "pending"    -> {"paid", "cancelled"}
       [] s = "paid"       -> {"processing", "cancelled"}
       [] s = "processing" -> {"dispatched", "cancelled"}
       [] s = "dispatched" -> {"delivered", "returned"}
       [] s = "delivered"  -> {"returned", "refunded"}
       [] s = "returned"   -> {"refunded"}
       [] OTHER            -> {}]

\* transition_order accepts a step of the table and a repeated status.
\* Mutant: the table is not consulted.
MayBecomeAny(s, t) == TRUE
MayBecome(s, t) == t = s \/ t \in AllowedTransitions[s]

\* An order in one of these states holds reservations ...
Open == {"pending", "paid", "processing"}
\* ... and one in these states has left the warehouse.
Shipped == {"dispatched", "delivered", "returned", "refunded"}

\* quantity_on_hand and reserved_quantity of an inventory row.
Balance == [onHand : Int, reserved : Int]
NoBalance == [onHand |-> 0, reserved |-> 0]
\* Mutant: reserved units count as available.
AvailableOnHand(b) == b.onHand
Available(b) == b.onHand - b.reserved

\* The row of an order with its lines: alloc is order_items.inventory_item_id.
OrderRow == [payload : Payload, evt : EventId, status : Status,
             alloc : [Line -> Item \cup {NoItem}]]

\* The units of an order row that are allocated to item i, one element per
\* unit, so that a total quantity is a cardinality.
Units(row, i) ==
  UNION {{l} \X (1 .. Quantity[l]) : l \in {k \in Line : row.alloc[k] = i}}
QuantityAt(row, i) == Cardinality(Units(row, i))

\* The orders of a table that are in one of the states S, and the units they
\* have at item i.
OrdersIn(table, S) == {e \in ExtId : table[e] # NoOrder /\ table[e].status \in S}
UnitsHeld(table, S, i) ==
  UNION {{e} \X Units(table[e], i) : e \in OrdersIn(table, S)}

ASSUME StockAssumption ==
  /\ IsFiniteSet(Item) /\ IsFiniteSet(ExtId) /\ IsFiniteSet(Line)
  /\ LinesOf \in [Payload -> (SUBSET Line) \ {{}}]
  /\ Quantity \in [Line -> Nat \ {0}]
  /\ Candidates \in [Line -> SUBSET Item]
  /\ FirstStatus \in [Payload -> Status]
  /\ InitialOnHand \in [Item -> Nat]
  /\ Adjustment \subseteq [key : {a.key : a \in Adjustment},
                          item : Item, delta : Int]
  /\ NoItem \notin Item
  /\ NoOrder \notin OrderRow
=============================================================================
