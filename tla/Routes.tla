-------------------------------- MODULE Routes --------------------------------
(***************************************************************************)
(* The routes of PRODUCT_APPROVED, PURCHASE_APPROVED and LOW_STOCK.  An    *)
(* event is stored with the change it announces and handled later, once,   *)
(* when purchases and stock have moved on: each route decides on the rows  *)
(* it finds then.  How events are delivered and runs are retried is the    *)
(* subject of EventWorker, how the calls of Procurement interleave that of *)
(* Procurement; here they are single steps.  The three routes fail with    *)
(* NonRetryableWorkflowError only, so that a run is over after one attempt.*)
(***************************************************************************)
EXTENDS Naturals, FiniteSetsExt

CONSTANTS
  Deal,        \* purchases, each with its procurement request
  Shelf,       \* inventory items
  Level,       \* low_stock_threshold of each
  Multiplier,  \* reorder_target_multiplier
  Alarm,       \* LOW_STOCK events
  ShelfOf,     \* the inventory item of an event
  MaxUnits,    \* bound: available units of an item
  NoReorder    \* no reorder_recommendations row

ASSUME RoutesAssumption ==
  /\ Level \in [Shelf -> Nat] /\ ShelfOf \in [Alarm -> Shelf]
  /\ Multiplier \in Nat \ {0} /\ MaxUnits \in Nat
  /\ NoReorder \notin [available : Nat, suggested : Nat]

VARIABLES
  deals,     \* status of the procurement requests
  bought,    \* those with a purchase order
  told,      \* the runs of PRODUCT_APPROVED
  confirmed, \* the runs of PURCHASE_APPROVED
  units,     \* available_quantity of each inventory item
  alarms,    \* the runs of LOW_STOCK
  reorders   \* the recommendation written for each LOW_STOCK
\* A run is "queued" with its event and over, "succeeded" or "failed", when the
\* event has been handled.
routeVars == <<deals, bought, told, confirmed, units, alarms, reorders>>

(***************************************************************************)
(* Purchases                                                               *)
(***************************************************************************)

Transitions ==
  [proposed |-> {"awaiting_approval", "cancelled"},
   awaiting_approval |-> {"approved", "cancelled"},
   approved |-> {"ordered", "cancelled"}, ordered |-> {"shipped"},
   shipped |-> {"received"}, received |-> {}, cancelled |-> {}]

\* The approval creates the purchase order and stores PURCHASE_APPROVED.
MoveDeal(p) ==
  /\ \E s \in Transitions[deals[p]] : deals' = [deals EXCEPT ![p] = s]
  /\ IF deals'[p] = "approved"
     THEN /\ bought' = bought \cup {p}
          /\ confirmed' = [confirmed EXCEPT ![p] = "queued"]
     ELSE UNCHANGED <<bought, confirmed>>
  /\ UNCHANGED <<told, units, alarms, reorders>>

\* The statuses that the two routes accept.
ActiveStates == {"proposed", "awaiting_approval", "approved", "ordered",
                 "shipped", "received"}
StatesOnTheWay == {"approved", "ordered", "shipped"}
ApprovedStates == {"approved", "ordered", "shipped", "received"}

ProductToProcurement(p) ==
  /\ told[p] = "queued"
  /\ told' = [told EXCEPT ![p] =
       IF deals[p] \in ActiveStates THEN "succeeded" ELSE "failed"]
  /\ UNCHANGED <<deals, bought, confirmed, units, alarms, reorders>>

PurchaseToOrder(p) ==
  /\ confirmed[p] = "queued"
  /\ confirmed' = [confirmed EXCEPT ![p] =
       IF deals[p] \in ApprovedStates /\ p \in bought THEN "succeeded" ELSE "failed"]
  /\ UNCHANGED <<deals, bought, told, units, alarms, reorders>>

(***************************************************************************)
(* Stock                                                                   *)
(***************************************************************************)

\* Sales, releases, receipts and corrections.  A movement that leaves an item
\* at its threshold or below may store LOW_STOCK: OrderStock has the decision.
MoveUnits(i) ==
  /\ \E n \in (0 .. MaxUnits) \ {units[i]} : units' = [units EXCEPT ![i] = n]
  /\ \/ UNCHANGED alarms
     \/ /\ units'[i] <= Level[i]
        /\ \E e \in Alarm : /\ ShelfOf[e] = i /\ alarms[e] = "none"
                            /\ alarms' = [alarms EXCEPT ![e] = "queued"]
  /\ UNCHANGED <<deals, bought, told, confirmed, reorders>>

\* The quantity that is aimed at, and what is missing to it.
LevelTarget(i) == Level[i] * Multiplier
ReorderTarget(i) == Max({Level[i] * Multiplier, Level[i] + 1})
Suggested(i) ==
  IF ReorderTarget(i) > units[i] THEN ReorderTarget(i) - units[i] ELSE 1

\* The recommendation is committed with the receipt of its event, so that the
\* lookup by source_event_id finds none.
LowStockToReorder(e) ==
  LET i == ShelfOf[e] IN
  /\ alarms[e] = "queued"
  /\ IF units[i] > Level[i]
     THEN /\ alarms' = [alarms EXCEPT ![e] = "failed"]
          /\ UNCHANGED reorders
     ELSE /\ alarms' = [alarms EXCEPT ![e] = "succeeded"]
          /\ reorders' = [reorders EXCEPT ![e] =
               [available |-> units[i], suggested |-> Suggested(i)]]
  /\ UNCHANGED <<deals, bought, told, confirmed, units>>

(***************************************************************************)
(* The specification                                                       *)
(***************************************************************************)

\* The ingestion of an approved product proposes its purchase.
RoutesInit ==
  /\ deals = [p \in Deal |-> "proposed"]
  /\ bought = {}
  /\ told = [p \in Deal |-> "queued"]
  /\ confirmed = [p \in Deal |-> "none"]
  /\ units = [i \in Shelf |-> MaxUnits]
  /\ alarms = [e \in Alarm |-> "none"]
  /\ reorders = [e \in Alarm |-> NoReorder]

RoutesNext ==
  \/ \E p \in Deal : MoveDeal(p) \/ ProductToProcurement(p) \/ PurchaseToOrder(p)
  \/ \E i \in Shelf : MoveUnits(i)
  \/ \E e \in Alarm : LowStockToReorder(e)

RoutesSpec == RoutesInit /\ [][RoutesNext]_routeVars

(***************************************************************************)
(* Properties                                                              *)
(***************************************************************************)

\* However late the events of a purchase are handled, a run fails for good only
\* when its purchase has been cancelled, and one that succeeds for
\* PURCHASE_APPROVED has found the purchase order.
PurchaseRunsAgree ==
  \A p \in Deal :
    /\ "failed" \in {told[p], confirmed[p]} => deals[p] = "cancelled"
    /\ confirmed[p] = "succeeded" => p \in bought
    /\ confirmed[p] # "none" <=> p \in bought

\* A recommendation is written for an item that is at its threshold or below,
\* and what it suggests takes the item above the threshold, also when that is
\* zero or the multiplier one.
ReordersRefill ==
  \A e \in Alarm :
    LET i == ShelfOf[e]
        r == reorders[e]
    IN /\ r # NoReorder <=> alarms[e] = "succeeded"
       /\ r # NoReorder => /\ r.available <= Level[i]
                           /\ r.available + r.suggested > Level[i]

\* What a person finds in the runs of these routes is true of the purchases and
\* of the stock, whenever their events have been handled.
RoutesTellTruth == PurchaseRunsAgree /\ ReordersRefill
=============================================================================
