----------------------------- MODULE Procurement -----------------------------
(***************************************************************************)
(* Purchases from the proposal to the receipt of the goods: the procurement*)
(* service, its approvals and the goods receipts, called by concurrent API *)
(* requests.  A call is one READ COMMITTED transaction.  It takes its row  *)
(* locks step by step, keeps them to the end and writes with its commit.   *)
(*                                                                         *)
(* Every purchase has one procurement request, one workflow run, one       *)
(* product and at most one approval and one purchase order, all of them    *)
(* named by the purchase.  Supplier quotes meet their minimum order        *)
(* quantity, which the intake contract has checked.                        *)
(***************************************************************************)
EXTENDS Integers, FiniteSets, Functions

CONSTANTS
  Purchase,   \* purchases, ingested from approved products
  Ordered,    \* the quantity of each
  Place,      \* SKU and storage location of an inventory row
  Key,        \* idempotency keys of goods receipts
  MaxReceipt, \* bound: units of a goods receipt
  Thread,     \* concurrent API requests
  NoStock,    \* no inventory row
  NoCall      \* no call

ASSUME ProcurementAssumption ==
  /\ Ordered \in [Purchase -> Nat \ {0}] /\ MaxReceipt \in Nat
  /\ IsFiniteSet(Purchase) /\ IsFiniteSet(Key) /\ IsFiniteSet(Place)

VARIABLES
  request,   \* status of the procurement request
  approval,  \* status of its approval, "none" before it is requested
  overdue,   \* approvals that are past expires_at
  order,     \* status of the purchase order, "none" before it is created
  received,  \* received_quantity of the purchase order
  run,       \* status of the workflow run
  stock,     \* inventory rows
  movements, \* goods receipts in the inventory ledger
  pc,        \* what a call does next
  call,      \* the call
  answer     \* how the last call of a thread ended

purchases == <<request, approval, order, run>>
inventory == <<received, stock, movements>>
calls == <<pc, call, answer>>
vars == <<request, approval, overdue, order, received, run, stock, movements,
          pc, call, answer>>

(***************************************************************************)
(* States of a purchase                                                    *)
(***************************************************************************)

\* A permission to cancel what has been shipped would not only lose the goods.
CancelWhileShipped(s) ==
  CASE s = "proposed" -> {"awaiting_approval", "cancelled"}
    [] s = "awaiting_approval" -> {"approved", "cancelled"}
    [] s = "approved" -> {"ordered", "cancelled"}
    [] s = "ordered" -> {"shipped"}
    [] s = "shipped" -> {"received", "cancelled"}
    [] s \in {"received", "cancelled"} -> {}
AllowedTransitions(s) ==
  CASE s = "proposed" -> {"awaiting_approval", "cancelled"}
    [] s = "awaiting_approval" -> {"approved", "cancelled"}
    [] s = "approved" -> {"ordered", "cancelled"}
    [] s = "ordered" -> {"shipped"}
    [] s = "shipped" -> {"received"}
    [] s \in {"received", "cancelled"} -> {}

RequestStatus == {"proposed", "awaiting_approval", "approved", "ordered",
                  "shipped", "received", "cancelled"}
ApprovalStatus == {"none", "pending", "approved", "rejected", "expired"}
OrderStatus == {"none", "approved", "submitted", "shipped", "received",
                "cancelled"}

Stock == [product : Purchase, onHand : Nat]
Movement == [key : Key, purchase : Purchase, quantity : 1 .. MaxReceipt,
             place : Place]

\* What is left to receive, and whether a receipt of q units completes it.
RemainingOfReceipt(p) == Ordered[p]
Remaining(p) == Ordered[p] - received[p]
CompletesAlone(p, q) == q = Ordered[p]
Completes(p, q) == received[p] + q = Ordered[p]

(***************************************************************************)
(* Calls                                                                   *)
(***************************************************************************)

\* The status that an operation gives to the procurement request.
Target == [submit |-> "awaiting_approval", approve |-> "approved",
           order |-> "ordered", ship |-> "shipped", cancel |-> "cancelled",
           receive |-> "received"]
Decision == {"approve", "reject"}
Call ==
  [op : {"submit", "order", "ship", "cancel"}, purchase : Purchase]
  \cup [op : Decision, purchase : Purchase, inTime : BOOLEAN]
  \cup [op : {"receive"}, purchase : Purchase, key : Key,
        quantity : 1 .. MaxReceipt, place : Place,
        retried : BOOLEAN, inserts : BOOLEAN]

ASSUME NoValueAssumption == NoStock \notin Stock /\ NoCall \notin Call

First(op) == CASE op = "receive" -> "lookup"
               [] op \in Decision -> "approval"
               [] OTHER -> "request"

\* A decision compares expires_at with the time at which it begins.
Begin(t, c) ==
  /\ pc[t] = "idle"
  /\ c.op \in Decision => /\ approval[c.purchase] # "none"
                          /\ c.inTime = (c.purchase \notin overdue)
  /\ c.op = "receive" => /\ order[c.purchase] # "none"
                         /\ ~ c.retried /\ ~ c.inserts
  /\ call' = [call EXCEPT ![t] = c]
  /\ pc' = [pc EXCEPT ![t] = First(c.op)]
  /\ answer' = [answer EXCEPT ![t] = "none"]
  /\ UNCHANGED <<purchases, overdue, inventory>>

Goto(t, p) == /\ pc' = [pc EXCEPT ![t] = p]
              /\ UNCHANGED <<call, answer>>
End(t, a) == /\ pc' = [pc EXCEPT ![t] = "idle"]
             /\ call' = [call EXCEPT ![t] = NoCall]
             /\ answer' = [answer EXCEPT ![t] = a]

\* The rows that the transaction of a call has locked.
LocksApproval(s) == pc[s] \in {"request", "finish"} /\ call[s].op = "approve"
LocksOrder(s) ==
  /\ pc[s] \in {"item", "insert", "movement", "request", "finish"}
  /\ call[s].op = "receive"
LocksRequest(s) ==
  /\ pc[s] = "finish"
  /\ call[s].op = "receive" => Completes(call[s].purchase, call[s].quantity)

\* They are locked by another call than that of t.
Rivals(t) == {s \in Thread \ {t} : /\ pc[s] # "idle"
                                  /\ call[s].purchase = call[t].purchase}
ApprovalLocked(t) == \E s \in Rivals(t) : LocksApproval(s)
OrderLocked(t) == \E s \in Rivals(t) : LocksOrder(s)
RequestLocked(t) == \E s \in Rivals(t) : LocksRequest(s)
PlaceLocked(t) == \E s \in Thread \ {t} :
  /\ pc[s] # "idle" /\ call[s].op = "receive" /\ call[s].place = call[t].place
  /\ \/ pc[s] \in {"movement", "request", "finish"}
     \/ pc[s] = "insert" /\ ~ call[s].inserts
KeyLocked(t) == \E s \in Thread \ {t} :
  /\ pc[s] \in {"request", "finish"} /\ call[s].op = "receive"
  /\ call[s].key = call[t].key

(***************************************************************************)
(* Decisions                                                               *)
(***************************************************************************)

\* _require_pending
MayDecideUnlessApproved(p) == approval[p] # "approved"
MayDecide(p) == approval[p] = "pending"

\* get(for_update=True), then the checks of approve and reject.
RefuseDecision(t) ==
  LET p == call[t].purchase IN
  /\ pc[t] = "approval"
  /\ ~ ApprovalLocked(t)
  /\ ~ MayDecide(p)
  /\ End(t, "refused")
  /\ UNCHANGED <<purchases, overdue, inventory>>

\* The expiry of the approval is committed although the decision is refused.
ExpireOnDecision(t) ==
  LET p == call[t].purchase IN
  /\ pc[t] = "approval"
  /\ ~ ApprovalLocked(t)
  /\ MayDecide(p) /\ ~ call[t].inTime
  /\ approval' = [approval EXCEPT ![p] = "expired"]
  /\ End(t, "refused")
  /\ UNCHANGED <<request, order, run, overdue, inventory>>

Reject(t) ==
  LET p == call[t].purchase IN
  /\ pc[t] = "approval" /\ call[t].op = "reject"
  /\ ~ ApprovalLocked(t)
  /\ MayDecide(p) /\ call[t].inTime
  /\ approval' = [approval EXCEPT ![p] = "rejected"]
  /\ End(t, "done")
  /\ UNCHANGED <<request, order, run, overdue, inventory>>

\* approve goes on to the action of the approval, which locks the request.
LockApproval(t) ==
  LET p == call[t].purchase IN
  /\ pc[t] = "approval" /\ call[t].op = "approve"
  /\ ~ ApprovalLocked(t)
  /\ MayDecide(p) /\ call[t].inTime
  /\ Goto(t, "request")
  /\ UNCHANGED <<purchases, overdue, inventory>>

\* expire_due, the sweep over the pending approvals.
Undecided == {p \in Purchase : approval[p] = "pending" /\ p \in overdue}
ExpireDue ==
  /\ Undecided # {}
  /\ \A s \in Thread : LocksApproval(s) => call[s].purchase \notin Undecided
  /\ approval' = [p \in Purchase |->
                    IF p \in Undecided THEN "expired" ELSE approval[p]]
  /\ UNCHANGED <<request, order, run, overdue, inventory, calls>>

(***************************************************************************)
(* Transitions of the procurement request                                  *)
(***************************************************************************)

\* get(for_update=True), then the purchase order and the state machine.
MayChange(t) ==
  LET p == call[t].purchase IN
  /\ call[t].op \in {"order", "ship"} => order[p] # "none"
  /\ Target[call[t].op] \in AllowedTransitions(request[p])

LockRequest(t) ==
  /\ pc[t] = "request"
  /\ ~ RequestLocked(t)
  /\ MayChange(t)
  /\ Goto(t, "finish")
  /\ UNCHANGED <<purchases, overdue, inventory>>

\* The transaction is rolled back with everything that it has done.
RefuseChange(t) ==
  /\ pc[t] = "request"
  /\ ~ RequestLocked(t)
  /\ ~ MayChange(t)
  /\ End(t, "refused")
  /\ UNCHANGED <<purchases, overdue, inventory>>

\* The commit of t, which holds the lock of the request.
Finishes(t, op) == /\ pc[t] = "finish" /\ call[t].op = op
                   /\ End(t, "done")
                   /\ UNCHANGED overdue
SetRequest(t) ==
  request' = [request EXCEPT ![call[t].purchase] = Target[call[t].op]]
SetOrder(t, s) == order' = [order EXCEPT ![call[t].purchase] = s]
SetRun(t, s) == run' = [run EXCEPT ![call[t].purchase] = s]

\* submit_for_approval; the policy asks for an approval of every purchase.
Submit(t) ==
  /\ Finishes(t, "submit")
  /\ SetRequest(t)
  /\ approval' = [approval EXCEPT ![call[t].purchase] =
                    IF @ = "none" THEN "pending" ELSE @]
  /\ UNCHANGED <<order, run, inventory>>

\* approve, with approve_purchase as its action; the run is resumed.
Approve(t) ==
  /\ Finishes(t, "approve")
  /\ approval' = [approval EXCEPT ![call[t].purchase] = "approved"]
  /\ SetRequest(t)
  /\ SetOrder(t, "approved")
  /\ SetRun(t, "running")
  /\ UNCHANGED inventory

\* mark_ordered and mark_shipped update the purchase order, whose row they
\* have not locked.
MarkOrdered(t) ==
  /\ Finishes(t, "order")
  /\ ~ OrderLocked(t)
  /\ SetRequest(t)
  /\ SetOrder(t, "submitted")
  /\ UNCHANGED <<approval, run, inventory>>
MarkShipped(t) ==
  /\ Finishes(t, "ship")
  /\ ~ OrderLocked(t)
  /\ SetRequest(t)
  /\ SetOrder(t, "shipped")
  /\ UNCHANGED <<approval, run, inventory>>

\* cancel does not touch the approval.
Cancel(t) ==
  /\ Finishes(t, "cancel")
  /\ ~ OrderLocked(t)
  /\ SetRequest(t)
  /\ order' = [order EXCEPT ![call[t].purchase] =
                 IF @ = "none" THEN "none" ELSE "cancelled"]
  /\ SetRun(t, "cancelled")
  /\ UNCHANGED <<approval, inventory>>

(***************************************************************************)
(* Goods receipts                                                          *)
(***************************************************************************)

Booked(k) == {m \in movements : m.key = k}
Repeats(c, m) == m.purchase = c.purchase /\ m.quantity = c.quantity

\* _existing_movement, without a lock.
Replay(t) ==
  /\ pc[t] = "lookup"
  /\ \E m \in Booked(call[t].key) :
       End(t, IF Repeats(call[t], m) THEN "replayed" ELSE "refused")
  /\ UNCHANGED <<purchases, overdue, inventory>>
LookupMovement(t) ==
  /\ pc[t] = "lookup"
  /\ Booked(call[t].key) = {}
  /\ Goto(t, "order")
  /\ UNCHANGED <<purchases, overdue, inventory>>

\* SELECT the purchase order FOR UPDATE.
Receivable(t) ==
  LET p == call[t].purchase IN
  order[p] = "shipped" /\ call[t].quantity <= Remaining(p)
LockOrder(t) ==
  /\ pc[t] = "order"
  /\ ~ OrderLocked(t)
  /\ Receivable(t)
  /\ Goto(t, "item")
  /\ UNCHANGED <<purchases, overdue, inventory>>
RefuseReceipt(t) ==
  /\ pc[t] = "order"
  /\ ~ OrderLocked(t)
  /\ ~ Receivable(t)
  /\ End(t, "refused")
  /\ UNCHANGED <<purchases, overdue, inventory>>

\* SELECT the inventory row FOR UPDATE: there is none ...
MissItem(t) ==
  /\ pc[t] = "item"
  /\ stock[call[t].place] = NoStock
  /\ call' = [call EXCEPT ![t].inserts = TRUE]
  /\ pc' = [pc EXCEPT ![t] = "insert"]
  /\ UNCHANGED <<purchases, overdue, inventory, answer>>
\* ... or it has to be one of the same product.
LockItem(t) ==
  /\ pc[t] = "item"
  /\ stock[call[t].place] # NoStock
  /\ ~ PlaceLocked(t)
  /\ IF stock[call[t].place].product = call[t].purchase
     THEN Goto(t, "insert") ELSE End(t, "refused")
  /\ UNCHANGED <<purchases, overdue, inventory>>

\* An IntegrityError rolls the transaction back; the API tries once more.
Integrity(t) ==
  IF call[t].retried THEN End(t, "error")
  ELSE /\ call' = [call EXCEPT ![t].retried = TRUE, ![t].inserts = FALSE]
       /\ pc' = [pc EXCEPT ![t] = "lookup"]
       /\ UNCHANGED answer

\* INSERT a new inventory row; the unique constraint lets one insert through.
InsertItem(t) ==
  /\ pc[t] = "insert"
  /\ IF call[t].inserts
     THEN /\ ~ PlaceLocked(t)
          /\ IF stock[call[t].place] = NoStock
             THEN Goto(t, "movement") ELSE Integrity(t)
     ELSE Goto(t, "movement")
  /\ UNCHANGED <<purchases, overdue, inventory>>

\* INSERT the movement, whose key is unique.  The last receipt of a purchase
\* goes on to mark_received.
NeverTaken(k) == FALSE
KeyTaken(k) == Booked(k) # {}
InsertMovement(t) ==
  LET c == call[t] IN
  /\ pc[t] = "movement"
  /\ ~ KeyLocked(t)
  /\ IF KeyTaken(c.key) THEN Integrity(t)
     ELSE Goto(t, IF Completes(c.purchase, c.quantity) THEN "request"
                                                       ELSE "finish")
  /\ UNCHANGED <<purchases, overdue, inventory>>

Receive(t) ==
  LET c == call[t]
      onHand == IF c.inserts THEN 0 ELSE stock[c.place].onHand
  IN
  /\ Finishes(t, "receive")
  /\ received' = [received EXCEPT ![c.purchase] = @ + c.quantity]
  /\ stock' = [stock EXCEPT ![c.place] =
       [product |-> c.purchase, onHand |-> onHand + c.quantity]]
  /\ movements' = movements \cup
       {[key |-> c.key, purchase |-> c.purchase, quantity |-> c.quantity,
         place |-> c.place]}
  /\ IF Completes(c.purchase, c.quantity)
     THEN SetRequest(t) /\ SetOrder(t, "received") /\ SetRun(t, "succeeded")
     ELSE UNCHANGED <<request, order, run>>
  /\ UNCHANGED approval

(***************************************************************************)
(* The environment                                                         *)
(***************************************************************************)

\* Time passes the expires_at of an approval.
PassExpiry(p) ==
  /\ approval[p] = "pending" /\ p \notin overdue
  /\ overdue' = overdue \cup {p}
  /\ UNCHANGED <<purchases, inventory, calls>>

\* The connection or the process is lost: the transaction is rolled back.
Crash(t) ==
  /\ pc[t] # "idle"
  /\ End(t, "error")
  /\ UNCHANGED <<purchases, overdue, inventory>>

(***************************************************************************)
(* The specification                                                       *)
(***************************************************************************)

Init ==
  /\ request = [p \in Purchase |-> "proposed"]
  /\ approval = [p \in Purchase |-> "none"]
  /\ overdue = {}
  /\ order = [p \in Purchase |-> "none"]
  /\ received = [p \in Purchase |-> 0]
  /\ run = [p \in Purchase |-> "pending"]
  /\ stock = [i \in Place |-> NoStock]
  /\ movements = {}
  /\ pc = [t \in Thread |-> "idle"]
  /\ call = [t \in Thread |-> NoCall]
  /\ answer = [t \in Thread |-> "none"]

Work(t) ==
  \/ RefuseDecision(t) \/ ExpireOnDecision(t) \/ Reject(t) \/ LockApproval(t)
  \/ LockRequest(t) \/ RefuseChange(t) \/ Submit(t) \/ Approve(t)
  \/ MarkOrdered(t) \/ MarkShipped(t) \/ Cancel(t)
  \/ Replay(t) \/ LookupMovement(t) \/ LockOrder(t) \/ RefuseReceipt(t)
  \/ MissItem(t) \/ LockItem(t) \/ InsertItem(t) \/ InsertMovement(t)
  \/ Receive(t)

Next ==
  \/ \E t \in Thread : \/ \E c \in Call : Begin(t, c)
                       \/ Work(t)
                       \/ Crash(t)
  \/ \E p \in Purchase : PassExpiry(p)
  \/ ExpireDue

Spec == Init /\ [][Next]_vars

\* Every request handler runs on, and a row lock is granted in the end to
\* whoever waits for it.
FairSpec == Spec /\ \A t \in Thread : SF_vars(Work(t))

(***************************************************************************)
(* Properties                                                              *)
(***************************************************************************)

Pc == {"idle", "approval", "request", "finish", "lookup", "order", "item",
       "insert", "movement"}

\* Tables and calls are well formed; the check constraint of purchase_orders,
\* received_within_ordered, is never what stops a receipt.
TypeOK ==
  /\ request \in [Purchase -> RequestStatus]
  /\ approval \in [Purchase -> ApprovalStatus]
  /\ overdue \in SUBSET Purchase
  /\ order \in [Purchase -> OrderStatus]
  /\ received \in [Purchase -> Nat]
  /\ \A p \in Purchase : received[p] <= Ordered[p]
  /\ run \in [Purchase -> {"pending", "running", "succeeded", "cancelled"}]
  /\ stock \in [Place -> Stock \cup {NoStock}]
  /\ movements \in SUBSET Movement
  /\ pc \in [Thread -> Pc]
  /\ call \in [Thread -> Call \cup {NoCall}]
  /\ \A t \in Thread : call[t] = NoCall <=> pc[t] = "idle"
  /\ answer \in [Thread -> {"none", "done", "replayed", "refused", "error"}]

Units(M) == SumFunctionOnSet([m \in M |-> m.quantity], M)
OnHand(i) == IF stock[i] = NoStock THEN 0 ELSE stock[i].onHand

\* However receipts of the same key, of the same purchase and at the same
\* place race, the ledger accounts for every unit of the purchase orders and
\* of the inventory.
ReceiptsAddUp ==
  /\ \A p \in Purchase :
       received[p] = Units({m \in movements : m.purchase = p})
  /\ \A i \in Place : OnHand(i) = Units({m \in movements : m.place = i})
  /\ \A m, n \in movements : m.key = n.key => m = n

\* The four rows of a purchase tell the same story after every commit: there
\* is an order if and only if the purchase was approved, and it is closed by
\* its last unit and by nothing else.
Agrees(p) ==
  /\ approval[p] = "approved" <=> order[p] # "none"
  /\ request[p] = "proposed" => approval[p] = "none"
  /\ request[p] = "awaiting_approval" =>
       approval[p] \in {"pending", "rejected", "expired"}
  /\ request[p] \in {"approved", "shipped", "received"} => order[p] = request[p]
  /\ request[p] = "ordered" => order[p] = "submitted"
  /\ request[p] = "cancelled" => order[p] \in {"none", "cancelled"}
  /\ run[p] = CASE request[p] \in {"proposed", "awaiting_approval"} -> "pending"
                [] request[p] \in {"approved", "ordered", "shipped"} -> "running"
                [] request[p] = "received" -> "succeeded"
                [] request[p] = "cancelled" -> "cancelled"
  /\ received[p] = Ordered[p] <=> request[p] = "received"
  /\ received[p] > 0 => request[p] \in {"shipped", "received"}
StagesAgree == \A p \in Purchase : Agrees(p)

\* "Only pending approvals may be decided" and "Expired, rejected,
\* already-executed ... approvals cannot execute": no call changes a decision,
\* and none wakes up a purchase that is closed.
DecisionsAreFinal ==
  [][\A p \in Purchase :
       /\ approval[p] \notin {"none", "pending"} => approval'[p] = approval[p]
       /\ request[p] \in {"received", "cancelled"} =>
            /\ request'[p] = request[p] /\ order'[p] = order[p]
            /\ run'[p] = run[p] /\ received'[p] = received[p]]_vars

\* Row locks are taken in different orders, but no calls wait for each other:
\* every call is answered.
EveryCallEnds == \A t \in Thread : pc[t] # "idle" ~> pc[t] = "idle"

\* A receipt that has been booked is not refused when it is sent again with
\* its idempotency key.
RepeatsAreNotRefused ==
  [][\A t \in Thread :
       pc[t] # "idle" /\ call[t].op = "receive" /\ answer'[t] = "refused" =>
         \A m \in movements : ~ (m.key = call[t].key /\ Repeats(call[t], m))]_vars

\* The transactions implement the purchase book.
Book == INSTANCE PurchaseBook WITH
  stage <- request,
  got <- received,
  onHand <- [i \in Place |-> OnHand(i)],
  booked <- {m.key : m \in movements}
ImplementsBook == Book!Spec
=============================================================================
