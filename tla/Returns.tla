------------------------------- MODULE Returns -------------------------------
(***************************************************************************)
(* Returns and refunds of one dispatched order.  Each ORDER_RETURNED event *)
(* is reconciled by a workflow run, an attempt of which is a transaction:  *)
(* it restocks a sellable return under a lock of its inventory row, checks *)
(* the refunds and makes the order RETURNED, which it has read before      *)
(* without a lock.  Meanwhile people move the order on and refunds are     *)
(* requested and approved.                                                 *)
(***************************************************************************)
EXTENDS Integers, Functions

CONSTANTS
  Notice,           \* ORDER_RETURNED events
  Return,           \* returns
  ReturnOf,         \* the return of an event
  Article,          \* order items, each with an inventory row of its own
  ArticleOf,        \* the order item of a return
  Ordered,          \* ordered quantity of an order item
  Returned,         \* quantity of a return
  Sellable,         \* returns with the disposition sellable
  Refund,           \* refunds of the order
  Amount,           \* their amounts
  OrderTotal,       \* total_amount of the order
  RefundThreshold,  \* refund_approval_threshold
  MaxAttempts       \* workflow_max_attempts

ASSUME ReturnsAssumption ==
  /\ ReturnOf \in [Notice -> Return] /\ ArticleOf \in [Return -> Article]
  /\ Sellable \subseteq Return /\ Returned \in [Return -> Nat]
  /\ MaxAttempts \in Nat \ {0}

VARIABLES
  order,      \* status and version of the order
  runs,       \* the run of each event, with the rows it has read
  completed,  \* returns with status COMPLETED
  receipts,   \* returns with a return-receipt movement
  stock,      \* units added to each inventory row
  refunds     \* status of each refund, "pending" awaits its approval
returnVars == <<order, runs, completed, receipts, stock, refunds>>

After == [dispatched |-> {"delivered", "returned"},
          delivered |-> {"returned", "refunded"},
          returned |-> {"refunded"}, refunded |-> {}]
Moved(o, status) == IF o.status = status THEN o
                    ELSE [status |-> status, version |-> o.version + 1]

\* A run between its attempts has read nothing.  done: it has read its return as
\* COMPLETED, read: status and version of the order that it has read, adds: it
\* has added the units to the inventory row.
Unread == [status |-> "dispatched", version |-> 0]
Back(run, at) == [run EXCEPT !.at = at, !.done = FALSE, !.read = Unread,
                                !.adds = FALSE]

\* An exception ends the attempt, the last one the run.
AttemptEnds(n) ==
  LET tries == runs[n].tries + 1
      at == IF tries >= MaxAttempts THEN "failed" ELSE "queued"
  IN runs' = [runs EXCEPT ![n] = [Back(runs[n], at) EXCEPT !.tries = tries]]

\* The inventory row is locked from the adjustment to the end of the attempt.
LocksRow(n) == runs[n].at \in {"refunds", "order"} /\ runs[n].adds

(***************************************************************************)
(* _return_to_reconciliation                                               *)
(***************************************************************************)

ReadReturn(n) ==
  /\ runs[n].at = "queued"
  /\ runs' = [runs EXCEPT ![n].at = "read", ![n].done = ReturnOf[n] \in completed]
  /\ UNCHANGED <<order, completed, receipts, stock, refunds>>

\* A return of more than was ordered is not retried.
ReadOrder(n) ==
  LET r == ReturnOf[n] IN
  /\ runs[n].at = "read"
  /\ runs' = [runs EXCEPT ![n] =
       IF Returned[r] > Ordered[ArticleOf[r]] THEN Back(@, "failed")
       ELSE [@ EXCEPT !.at = IF r \in Sellable THEN "key" ELSE "refunds",
                      !.read = order]]
  /\ UNCHANGED <<order, completed, receipts, stock, refunds>>

\* The key return-receipt:{id} names the return; one that named the event would
\* never be taken, because the movement of a failed attempt is rolled back.
KeyOfEventTaken(n) == FALSE
KeyTaken(n) == ReturnOf[n] \in receipts

\* InventoryService.adjust looks the key up ...
LookupReceipt(n) ==
  /\ runs[n].at = "key"
  /\ runs' = [runs EXCEPT ![n].at =
       IF KeyTaken(n) THEN "refunds" ELSE "row"]
  /\ UNCHANGED <<order, completed, receipts, stock, refunds>>

\* ... locks the row and inserts the movement, whose key is unique.
LockRow(n) ==
  /\ runs[n].at = "row"
  /\ \A m \in Notice :
       LocksRow(m) => ArticleOf[ReturnOf[m]] # ArticleOf[ReturnOf[n]]
  /\ IF KeyTaken(n) THEN AttemptEnds(n)
     ELSE runs' = [runs EXCEPT ![n].at = "refunds", ![n].adds = TRUE]
  /\ UNCHANGED <<order, completed, receipts, stock, refunds>>

\* Approved refunds above the total of the order are not retried.
Refunded == SumFunctionOnSet(Amount, {f \in Refund : refunds[f] = "approved"})
CheckRefunds(n) ==
  /\ runs[n].at = "refunds"
  /\ runs' = [runs EXCEPT ![n] =
       IF Refunded > OrderTotal THEN Back(@, "failed") ELSE [@ EXCEPT !.at = "order"]]
  /\ UNCHANGED <<order, completed, receipts, stock, refunds>>

\* update_status checks the transition of the status that was read.  An UPDATE
\* of the order or of the return carries the version that was read; a row that
\* has its new status already is not updated.
Transition(n) ==
  runs[n].read.status = "returned" \/ "returned" \in After[runs[n].read.status]
ReadIsEnough(n) == TRUE
ReadIsCurrent(n) ==
  /\ runs[n].read.status = "returned" \/ runs[n].read = order
  /\ runs[n].done \/ ReturnOf[n] \notin completed

CompleteReturn(n) ==
  LET r == ReturnOf[n] IN
  /\ runs[n].at = "order"
  /\ Transition(n) /\ ReadIsCurrent(n)
  /\ order' = IF runs[n].read.status = "returned" THEN order
              ELSE Moved(order, "returned")
  /\ completed' = completed \cup {r}
  /\ receipts' = IF runs[n].adds THEN receipts \cup {r} ELSE receipts
  /\ stock' = [stock EXCEPT ![ArticleOf[r]] =
       IF runs[n].adds THEN @ + Returned[r] ELSE @]
  /\ runs' = [runs EXCEPT ![n] = Back(@, "succeeded")]
  /\ UNCHANGED refunds

\* InvalidOrderTransition or StaleDataError.
ReturnFails(n) ==
  /\ runs[n].at = "order"
  /\ ~ (Transition(n) /\ ReadIsCurrent(n))
  /\ AttemptEnds(n)
  /\ UNCHANGED <<order, completed, receipts, stock, refunds>>

\* The worker dies; the attempt is rolled back and found again.
ReturnCrash(n) ==
  /\ runs[n].at \in {"read", "key", "row", "refunds", "order"}
  /\ runs' = [runs EXCEPT ![n] = Back(@, "queued")]
  /\ UNCHANGED <<order, completed, receipts, stock, refunds>>

(***************************************************************************)
(* People                                                                  *)
(***************************************************************************)

\* OrderService.update_status locks the order before it reads the status.
MoveOrder(status) ==
  /\ status \in After[order.status]
  /\ order' = Moved(order, status)
  /\ UNCHANGED <<runs, completed, receipts, stock, refunds>>

\* RefundThresholdRule
NeedsDecision(f) == Amount[f] > RefundThreshold

\* RefundService.request_approval: a second request returns the approval that
\* there is, whatever its status.
RequestRefund(f) ==
  /\ refunds[f] = "proposed"
  /\ refunds' = [refunds EXCEPT ![f] =
       IF NeedsDecision(f) THEN "pending" ELSE "approved"]
  /\ UNCHANGED <<order, runs, completed, receipts, stock>>

DecideRefund(f) ==
  /\ refunds[f] = "pending"
  /\ \E decision \in {"approved", "declined"} :
       refunds' = [refunds EXCEPT ![f] = decision]
  /\ UNCHANGED <<order, runs, completed, receipts, stock>>

(***************************************************************************)
(* The specification                                                       *)
(***************************************************************************)

ReturnsInit ==
  /\ order \in [status : {"dispatched", "delivered"}, version : {1}]
  /\ runs = [n \in Notice |-> [at |-> "queued", tries |-> 0, done |-> FALSE,
                               read |-> Unread, adds |-> FALSE]]
  /\ completed = {} /\ receipts = {}
  /\ stock = [a \in Article |-> 0]
  /\ refunds = [f \in Refund |-> "proposed"]

ReturnsNext ==
  \/ \E n \in Notice :
       \/ ReadReturn(n) \/ ReadOrder(n) \/ LookupReceipt(n) \/ LockRow(n)
       \/ CheckRefunds(n) \/ CompleteReturn(n) \/ ReturnFails(n) \/ ReturnCrash(n)
  \/ \E status \in DOMAIN After : MoveOrder(status)
  \/ \E f \in Refund : RequestRefund(f) \/ DecideRefund(f)

ReturnsSpec == ReturnsInit /\ [][ReturnsNext]_returnVars

(***************************************************************************)
(* Properties                                                              *)
(***************************************************************************)

\* "Reconcile financial and inventory state": however often a return is
\* announced, retried or interrupted, its sellable units are in stock exactly
\* once, from the moment it is COMPLETED; its order is returned then, or
\* refunded since.
ReturnsReconciled ==
  /\ \A a \in Article :
       stock[a] = SumFunctionOnSet(Returned,
                    {r \in completed \cap Sellable : ArticleOf[r] = a})
  /\ completed # {} => order.status \in {"returned", "refunded"}

\* A reconciliation that has read an older status never takes a refunded order
\* back, nor does a person.
OrdersNeverReopen ==
  [][order.status = "refunded" => order'.status = "refunded"]_returnVars
=============================================================================
