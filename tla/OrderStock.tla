----------------------------- MODULE OrderStock -----------------------------
(***************************************************************************)
(* Orders and inventory under concurrent requests.  Every API thread runs  *)
(* one request at a time as one database transaction, one SQL statement    *)
(* per step, against PostgreSQL at READ COMMITTED:                         *)
(*   - a plain SELECT sees the committed rows and the writes of its own    *)
(*     transaction, and takes no lock;                                     *)
(*   - SELECT ... FOR UPDATE and a conditional UPDATE wait for the row     *)
(*     lock and then look at the newest committed version of the row;      *)
(*   - an INSERT waits for a concurrent transaction with the same unique   *)
(*     key and fails with IntegrityError once that key is committed;       *)
(*   - COMMIT publishes all writes at once, a rollback drops them all.     *)
(* A thread that cannot take a lock is a thread whose step is disabled.    *)
(***************************************************************************)
EXTENDS StockModel, Sequences, Functions

CONSTANTS
  Thread,     \* request threads of the API
  Webhook,    \* order deliveries: external id, source event id, payload
  Target,     \* the statuses that POST /orders/{id}/status asks for
  Threshold   \* low_stock_threshold of the inventory rows

ASSUME OrderStockAssumption ==
  /\ Webhook \subseteq [ext : ExtId, evt : EventId, payload : Payload]
  /\ Target \subseteq Status
  /\ Threshold \in [Item -> Nat]

VARIABLES
  inventory,  \* committed inventory_items
  orders,     \* committed orders with their order_items
  movements,  \* committed inventory_movements and their LOW_STOCK events
  pc,         \* the next statement of each thread
  req,        \* the request it serves
  attempt,    \* 1, or 2 after an IntegrityError
  todo,       \* order lines not handled yet
  line,       \* the order line being handled
  cand,       \* candidate rows for that line not tried yet
  before,     \* previous_available
  locked,     \* inventory rows locked by the transaction
  work,       \* its uncommitted versions of these rows
  row,        \* its uncommitted (or locked) order row
  staged,     \* its uncommitted movements
  answer      \* how the last request of the thread ended

db == <<inventory, orders, movements>>
tx == <<todo, line, cand, before, locked, work, row, staged>>
vars == <<inventory, orders, movements, pc, req, attempt, todo, line, cand,
          before, locked, work, row, staged, answer>>

(***************************************************************************)
(* Requests, ledger entries and answers                                    *)
(***************************************************************************)

NoRequest == [op |-> "none"]
IngestRequest == [op : {"ingest"}, hook : Webhook]
StatusRequest == [op : {"status"}, ext : ExtId, target : Target]
AdjustRequest == [op : {"adjust"}, adj : Adjustment]
Request == IngestRequest \cup StatusRequest \cup AdjustRequest

\* A row of inventory_movements.  key stands for its unique idempotency_key;
\* low says that a LOW_STOCK event is stored with it, crossed (history only)
\* that its row really went from above its threshold to at or below it.
Movement(kind, key, i, delta, low, crossed) ==
  [kind |-> kind, key |-> key, item |-> i, delta |-> delta,
   low |-> low, crossed |-> crossed]
MovementRow ==
  [kind : {"reservation", "release", "shipment", "adjustment"},
   key : (ExtId \X Line) \cup {a.key : a \in Adjustment},
   item : Item, delta : Int, low : BOOLEAN, crossed : BOOLEAN]

\* accepted: 2xx; duplicate: 2xx with the stored result; changed, reused,
\* missing: OrderIdempotencyConflict and OrderValidationError; rejected: any
\* other 404 or 409; integrity and aborted: 500.
Answer == {"none", "accepted", "duplicate", "changed", "reused", "rejected",
           "missing", "integrity", "aborted"}

(***************************************************************************)
(* Transactions                                                            *)
(***************************************************************************)

\* What a statement of thread t reads from inventory row i.
Visible(t, i) == IF i \in locked[t] THEN work[t][i] ELSE inventory[i]

LockedByOther(t, i) == \E u \in Thread \ {t} : i \in locked[u]

\* Thread u has inserted, or holds FOR UPDATE, the row of an order.
\* Mutant: SELECT without FOR UPDATE, and no unique keys.
WithoutOrderLocks(u, op) == FALSE
Holds(u, op) == row[u] # NoOrder /\ req[u].op = op

\* The transaction of t ends: nothing of it is left.
Forget(t) ==
  /\ todo' = [todo EXCEPT ![t] = {}]
  /\ line' = [line EXCEPT ![t] = NoItem]
  /\ cand' = [cand EXCEPT ![t] = <<>>]
  /\ before' = [before EXCEPT ![t] = 0]
  /\ locked' = [locked EXCEPT ![t] = {}]
  /\ work' = [work EXCEPT ![t] = [i \in Item |-> NoBalance]]
  /\ row' = [row EXCEPT ![t] = NoOrder]
  /\ staged' = [staged EXCEPT ![t] = {}]

Reply(t, a) ==
  /\ pc' = [pc EXCEPT ![t] = "idle"]
  /\ req' = [req EXCEPT ![t] = NoRequest]
  /\ attempt' = [attempt EXCEPT ![t] = 1]
  /\ answer' = [answer EXCEPT ![t] = a]
  /\ Forget(t)

\* The exception handlers of the routes (and a commit that wrote nothing).
Rollback(t, a) == Reply(t, a) /\ UNCHANGED db

\* Mutant: the route answers the IntegrityError instead of trying again.
WithoutRetry(t, first) == Rollback(t, "integrity")
\* Mutant: it repeats the failed INSERT alone, and does so for ever.
RetryForever(t, first) ==
  /\ Forget(t)
  /\ attempt' = [attempt EXCEPT ![t] = 2]
  /\ UNCHANGED <<inventory, orders, movements, req, answer, pc>>
\* except IntegrityError: roll back and run the same command once more.
Integrity(t, first) ==
  IF attempt[t] = 2
  THEN Rollback(t, "integrity")
  ELSE /\ attempt' = [attempt EXCEPT ![t] = 2]
       /\ pc' = [pc EXCEPT ![t] = first]
       /\ Forget(t)
       /\ UNCHANGED <<inventory, orders, movements, req, answer>>

Goto(t, label) ==
  /\ pc' = [pc EXCEPT ![t] = label]
  /\ UNCHANGED <<inventory, orders, movements, req, attempt, answer>>

\* A request arrives and its transaction begins.
Begin(t, r, label) ==
  /\ pc[t] = "idle"
  /\ req' = [req EXCEPT ![t] = r]
  /\ pc' = [pc EXCEPT ![t] = label]
  /\ answer' = [answer EXCEPT ![t] = "none"]
  /\ UNCHANGED <<inventory, orders, movements, attempt>>
  /\ UNCHANGED tx

\* session.commit(): the rows written by t replace the committed ones.
Commit(t) ==
  /\ pc[t] = "commit"
  /\ inventory' = [i \in Item |-> Visible(t, i)]
  /\ orders' = [e \in ExtId |->
       IF /\ row[t] # NoOrder
          /\ e = IF req[t].op = "ingest" THEN req[t].hook.ext ELSE req[t].ext
       THEN row[t] ELSE orders[e]]
  /\ movements' = movements \cup staged[t]
  /\ Reply(t, "accepted")

\* The connection breaks or the process dies: the server rolls back.
Crash(t) == pc[t] # "idle" /\ Rollback(t, "none")

\* _inventory_events stores a LOW_STOCK event with the movement.
LowStock(i, previous, available) ==
  previous > Threshold[i] /\ Threshold[i] >= available

(***************************************************************************)
(* One conditional UPDATE of inventory row i by thread t, with the ledger  *)
(* entry and the events of _inventory_events: LOW_STOCK is decided from    *)
(* previous_available, which was read before the row was locked.           *)
(***************************************************************************)
Write(t, i, new, kind, key, delta) ==
  LET after == Available(new)
      low == LowStock(i, before[t], after)
      crossed == /\ Available(Visible(t, i)) > Threshold[i]
                 /\ Threshold[i] >= after
  IN /\ locked' = [locked EXCEPT ![t] = @ \cup {i}]
     /\ work' = [work EXCEPT ![t][i] = new]
     /\ staged' = [staged EXCEPT ![t] =
          @ \cup {Movement(kind, key, i, delta, low, crossed)}]

\* Mutant: the transaction commits after its first line.
FirstLineOnly(t, again) ==
  /\ todo' = [todo EXCEPT ![t] = {}]
  /\ line' = [line EXCEPT ![t] = NoItem]
  /\ before' = [before EXCEPT ![t] = 0]
  /\ Goto(t, "commit")
\* The next line of the order, if one is left.
NextLine(t, again) ==
  LET rest == todo[t] \ {line[t]} IN
  /\ todo' = [todo EXCEPT ![t] = rest]
  /\ line' = [line EXCEPT ![t] = NoItem]
  /\ before' = [before EXCEPT ![t] = 0]
  /\ Goto(t, IF rest = {} THEN "commit" ELSE again)

(***************************************************************************)
(* POST /orders: OrderService.ingest                                       *)
(***************************************************************************)
Ingest(t) ==
  \E w \in Webhook : Begin(t, [op |-> "ingest", hook |-> w], "lookupOrder")

\* SELECT the order by its external id; a redelivery ends here.
LookupOrder(t) ==
  LET w == req[t].hook IN
  /\ pc[t] = "lookupOrder"
  /\ \/ /\ orders[w.ext] = NoOrder
        /\ Goto(t, "lookupEvent")
        /\ UNCHANGED tx
     \/ /\ orders[w.ext] # NoOrder
        /\ orders[w.ext].payload # w.payload
        /\ Rollback(t, "changed")
     \/ /\ orders[w.ext] # NoOrder
        /\ orders[w.ext].payload = w.payload
        /\ Rollback(t, "duplicate")

EventOwner(v) == {e \in ExtId : orders[e] # NoOrder /\ orders[e].evt = v}

\* SELECT an order by the source event id, then _validate.
LookupEvent(t) ==
  LET w == req[t].hook IN
  /\ pc[t] = "lookupEvent"
  /\ \/ /\ EventOwner(w.evt) # {}
        /\ Rollback(t, "reused")
     \/ /\ EventOwner(w.evt) = {}
        /\ FirstStatus[w.payload] \notin {"pending", "paid"}
        /\ Rollback(t, "rejected")
     \/ /\ EventOwner(w.evt) = {}
        /\ FirstStatus[w.payload] \in {"pending", "paid"}
        /\ Goto(t, "insertOrder")
        /\ UNCHANGED tx

\* INSERT the order; its external id and its source event id are unique keys.
InsertOrder(t) ==
  LET w == req[t].hook IN
  /\ pc[t] = "insertOrder"
  /\ \A u \in Thread \ {t} :
       Holds(u, "ingest") => /\ req[u].hook.ext # w.ext
                             /\ req[u].hook.evt # w.evt
  /\ IF orders[w.ext] # NoOrder \/ EventOwner(w.evt) # {}
     THEN Integrity(t, "lookupOrder")
     ELSE /\ row' = [row EXCEPT ![t] =
               [payload |-> w.payload, evt |-> w.evt,
                status |-> FirstStatus[w.payload],
                alloc |-> [l \in Line |-> NoItem]]]
          /\ todo' = [todo EXCEPT ![t] = LinesOf[w.payload]]
          /\ Goto(t, "candidates")
          /\ UNCHANGED <<line, cand, before, locked, work, staged>>

\* The rows that store the SKU of line l, the most available first.
ByAvailability(t, l) ==
  LET C == Candidates[l]
      avail(i) == Available(Visible(t, i))
  IN {s \in [1 .. Cardinality(C) -> C] :
        \A m, n \in 1 .. Cardinality(C) :
          m < n => s[m] # s[n] /\ avail(s[m]) >= avail(s[n])}

\* _reserve: SELECT the candidates of the next line.
SelectCandidates(t) ==
  /\ pc[t] = "candidates"
  /\ \E l \in todo[t] : \E s \in ByAvailability(t, l) :
       /\ line' = [line EXCEPT ![t] = l]
       /\ cand' = [cand EXCEPT ![t] = s]
  /\ Goto(t, "readBefore")
  /\ UNCHANGED <<todo, before, locked, work, row, staged>>

\* _reserve: load the next candidate, without a lock.
ReadBefore(t) ==
  /\ pc[t] = "readBefore"
  /\ \/ /\ cand[t] = <<>>
        /\ Rollback(t, "rejected")
     \/ /\ cand[t] # <<>>
        /\ before' = [before EXCEPT ![t] =
             Available(Visible(t, Head(cand[t])))]
        /\ Goto(t, "reserve")
        /\ UNCHANGED <<todo, line, cand, locked, work, row, staged>>

\* _reserve: UPDATE ... WHERE enough units are available.
Reserve(t) ==
  LET i == Head(cand[t])
      b == Visible(t, i)
      q == Quantity[line[t]]
  IN
  /\ pc[t] = "reserve"
  /\ \/ /\ Available(b) < q
        /\ cand' = [cand EXCEPT ![t] = Tail(@)]
        /\ before' = [before EXCEPT ![t] = 0]
        /\ Goto(t, "readBefore")
        /\ UNCHANGED <<todo, line, locked, work, row, staged>>
     \/ /\ Available(b) >= q
        /\ ~ LockedByOther(t, i)
        /\ Write(t, i, [b EXCEPT !.reserved = @ + q], "reservation",
                 <<req[t].hook.ext, line[t]>>, q)
        /\ row' = [row EXCEPT ![t].alloc[line[t]] = i]
        /\ cand' = [cand EXCEPT ![t] = <<>>]
        /\ NextLine(t, "candidates")

(***************************************************************************)
(* POST /orders/{id}/status: OrderService.update_status                    *)
(***************************************************************************)
UpdateStatus(t) ==
  \E e \in ExtId, s \in Target :
    Begin(t, [op |-> "status", ext |-> e, target |-> s], "lockOrder")

\* The statuses that release or ship what the order has reserved.
\* Mutant: a cancelled order keeps its reservations.
OnlyDispatchMoves(s) == s = "dispatched"
MovesStock(s) == s \in {"cancelled", "dispatched"}

\* SELECT the order FOR UPDATE and check the transition.
LockOrder(t) ==
  LET o == orders[req[t].ext]
      s == req[t].target
  IN
  /\ pc[t] = "lockOrder"
  /\ \A u \in Thread \ {t} : Holds(u, "status") => req[u].ext # req[t].ext
  /\ \/ /\ o = NoOrder
        /\ Rollback(t, "rejected")
     \/ /\ o # NoOrder
        /\ ~ MayBecome(o.status, s)
        /\ Rollback(t, "rejected")
     \/ /\ o # NoOrder
        /\ s = o.status
        /\ Rollback(t, "accepted")
     \/ /\ o # NoOrder
        /\ s # o.status
        /\ MayBecome(o.status, s)
        /\ LET moved == IF MovesStock(s) THEN LinesOf[o.payload] ELSE {}
           IN /\ todo' = [todo EXCEPT ![t] = moved]
              /\ Goto(t, IF moved = {} THEN "commit" ELSE "readItem")
        /\ row' = [row EXCEPT ![t] = [o EXCEPT !.status = s]]
        /\ UNCHANGED <<line, cand, before, locked, work, staged>>

\* _release_order, _ship_order: load the row of the next line, without a lock.
ReadItem(t) ==
  /\ pc[t] = "readItem"
  /\ \E l \in todo[t] :
       /\ line' = [line EXCEPT ![t] = l]
       /\ before' = [before EXCEPT ![t] =
            Available(Visible(t, row[t].alloc[l]))]
  /\ Goto(t, "moveItem")
  /\ UNCHANGED <<todo, cand, locked, work, row, staged>>

\* _release_order: UPDATE ... WHERE the reservation is still there.
Release(t) ==
  LET i == row[t].alloc[line[t]]
      b == Visible(t, i)
      q == Quantity[line[t]]
  IN
  /\ pc[t] = "moveItem"
  /\ req[t].target = "cancelled"
  /\ \/ /\ b.reserved < q
        /\ Rollback(t, "missing")
     \/ /\ b.reserved >= q
        /\ ~ LockedByOther(t, i)
        /\ Write(t, i, [b EXCEPT !.reserved = @ - q], "release",
                 <<req[t].ext, line[t]>>, -q)
        /\ NextLine(t, "readItem")
        /\ UNCHANGED <<cand, row>>

\* _ship_order: UPDATE ... WHERE the reserved units are still on hand.
Ship(t) ==
  LET i == row[t].alloc[line[t]]
      b == Visible(t, i)
      q == Quantity[line[t]]
  IN
  /\ pc[t] = "moveItem"
  /\ req[t].target = "dispatched"
  /\ \/ /\ b.reserved < q \/ b.onHand < q
        /\ Rollback(t, "missing")
     \/ /\ b.reserved >= q
        /\ b.onHand >= q
        /\ ~ LockedByOther(t, i)
        /\ Write(t, i, [onHand |-> b.onHand - q, reserved |-> b.reserved - q],
                 "shipment", <<req[t].ext, line[t]>>, -q)
        /\ NextLine(t, "readItem")
        /\ UNCHANGED <<cand, row>>

(***************************************************************************)
(* POST /inventory/items/{id}/adjustments: InventoryService.adjust         *)
(***************************************************************************)
RequestAdjustment(t) ==
  \E a \in Adjustment : Begin(t, [op |-> "adjust", adj |-> a], "lookupMovement")

\* The committed ledger entries with an idempotency key.
\* Mutant: the key is neither looked up nor unique.
WithoutKey(k) == {}
Existing(k) == {m \in movements : m.kind = "adjustment" /\ m.key = k}

\* SELECT the movement of the idempotency key; an exact retry ends here.
LookupMovement(t) ==
  LET a == req[t].adj
      same == {m \in Existing(a.key) : m.item = a.item /\ m.delta = a.delta}
  IN
  /\ pc[t] = "lookupMovement"
  /\ \/ /\ Existing(a.key) = {}
        /\ Goto(t, "lockItem")
        /\ UNCHANGED tx
     \/ /\ same # {}
        /\ Rollback(t, "duplicate")
     \/ /\ Existing(a.key) # {}
        /\ same = {}
        /\ Rollback(t, "changed")

\* apply_quantity_change accepts the delta.
\* Mutant: the reserved units may be taken from the shelf.
MayAdjustReserved(b, delta) == delta # 0 /\ b.onHand + delta >= 0
MayAdjust(b, delta) ==
  /\ delta # 0
  /\ b.onHand + delta >= 0
  /\ b.onHand + delta >= b.reserved

\* SELECT the inventory row FOR UPDATE and check the new balance.
LockItem(t) ==
  LET a == req[t].adj
      b == Visible(t, a.item)
  IN
  /\ pc[t] = "lockItem"
  /\ ~ LockedByOther(t, a.item)
  /\ \/ /\ ~ MayAdjust(b, a.delta)
        /\ Rollback(t, "rejected")
     \/ /\ MayAdjust(b, a.delta)
        /\ locked' = [locked EXCEPT ![t] = {a.item}]
        /\ work' = [work EXCEPT ![t][a.item] = b]
        /\ before' = [before EXCEPT ![t] = Available(b)]
        /\ Goto(t, "adjust")
        /\ UNCHANGED <<todo, line, cand, row, staged>>

\* The flush: UPDATE the balance and INSERT the movement, whose idempotency
\* key is unique.
Adjust(t) ==
  LET a == req[t].adj
      b == Visible(t, a.item)
  IN
  /\ pc[t] = "adjust"
  /\ \A u \in Thread \ {t} : \A m \in staged[u] :
       ~ (m.kind = "adjustment" /\ m.key = a.key)
  /\ IF Existing(a.key) # {}
     THEN Integrity(t, "lookupMovement")
     ELSE /\ Write(t, a.item, [b EXCEPT !.onHand = @ + a.delta],
                   "adjustment", a.key, a.delta)
          /\ before' = [before EXCEPT ![t] = 0]
          /\ Goto(t, "commit")
          /\ UNCHANGED <<todo, line, cand, row>>

(***************************************************************************)
(* Deadlock detection of the database                                      *)
(***************************************************************************)

\* The statement that t is executing waits for the transaction of u.
WaitsFor(t, u) ==
  /\ t # u
  /\ \/ /\ pc[t] = "insertOrder"
        /\ Holds(u, "ingest")
        /\ \/ req[u].hook.ext = req[t].hook.ext
           \/ req[u].hook.evt = req[t].hook.evt
     \/ /\ pc[t] = "reserve"
        /\ Head(cand[t]) \in locked[u]
        /\ Available(Visible(t, Head(cand[t]))) >= Quantity[line[t]]
     \/ /\ pc[t] = "lockOrder"
        /\ Holds(u, "status")
        /\ req[u].ext = req[t].ext
     \/ pc[t] = "moveItem" /\ row[t].alloc[line[t]] \in locked[u]
     \/ pc[t] = "lockItem" /\ req[t].adj.item \in locked[u]
     \/ /\ pc[t] = "adjust"
        /\ \E m \in staged[u] : m.kind = "adjustment" /\ m.key = req[t].adj.key

\* A transaction on a cycle of waiting transactions is chosen as the victim.
Deadlock(t) ==
  /\ \E C \in SUBSET Thread :
       /\ t \in C
       /\ \A u \in C : /\ \E v \in C : WaitsFor(u, v)
                       /\ \E v \in C : WaitsFor(v, u)
  /\ Rollback(t, "aborted")

(***************************************************************************)
(* The specification                                                       *)
(***************************************************************************)

Init ==
  /\ inventory = [i \in Item |-> [onHand |-> InitialOnHand[i], reserved |-> 0]]
  /\ orders = [e \in ExtId |-> NoOrder]
  /\ movements = {}
  /\ pc = [t \in Thread |-> "idle"]
  /\ req = [t \in Thread |-> NoRequest]
  /\ attempt = [t \in Thread |-> 1]
  /\ todo = [t \in Thread |-> {}]
  /\ line = [t \in Thread |-> NoItem]
  /\ cand = [t \in Thread |-> <<>>]
  /\ before = [t \in Thread |-> 0]
  /\ locked = [t \in Thread |-> {}]
  /\ work = [t \in Thread |-> [i \in Item |-> NoBalance]]
  /\ row = [t \in Thread |-> NoOrder]
  /\ staged = [t \in Thread |-> {}]
  /\ answer = [t \in Thread |-> "none"]

\* The statements of a running transaction.
Step(t) ==
  \/ LookupOrder(t) \/ LookupEvent(t) \/ InsertOrder(t)
  \/ SelectCandidates(t) \/ ReadBefore(t) \/ Reserve(t)
  \/ LockOrder(t) \/ ReadItem(t) \/ Release(t) \/ Ship(t)
  \/ LookupMovement(t) \/ LockItem(t) \/ Adjust(t)
  \/ Commit(t) \/ Deadlock(t)

Next ==
  \E t \in Thread : \/ Ingest(t) \/ UpdateStatus(t) \/ RequestAdjustment(t)
                    \/ Step(t) \/ Crash(t)

Spec == Init /\ [][Next]_vars

\* A statement that can run again and again is executed: PostgreSQL grants row
\* locks in the order of arrival and aborts a member of every waiting cycle.
\* Clients owe no requests and processes may crash at any time.
FairSpec == Spec /\ \A t \in Thread : SF_vars(Step(t))

(***************************************************************************)
(* Properties                                                              *)
(***************************************************************************)

Label == {"idle", "lookupOrder", "lookupEvent", "insertOrder", "candidates",
          "readBefore", "reserve", "lockOrder", "readItem", "moveItem",
          "lookupMovement", "lockItem", "adjust", "commit"}

\* The tables and the local state of the threads are well formed.
TypeOK ==
  /\ inventory \in [Item -> Balance]
  /\ orders \in [ExtId -> OrderRow \cup {NoOrder}]
  /\ movements \in SUBSET MovementRow
  /\ pc \in [Thread -> Label]
  /\ req \in [Thread -> Request \cup {NoRequest}]
  /\ attempt \in [Thread -> {1, 2}]
  /\ todo \in [Thread -> SUBSET Line]
  /\ line \in [Thread -> Line \cup {NoItem}]
  /\ cand \in [Thread -> Seq(Item)]
  /\ before \in [Thread -> Int]
  /\ locked \in [Thread -> SUBSET Item]
  /\ work \in [Thread -> [Item -> Balance]]
  /\ row \in [Thread -> OrderRow \cup {NoOrder}]
  /\ staged \in [Thread -> SUBSET MovementRow]
  /\ answer \in [Thread -> Answer]

\* The CHECK constraints on the two quantities of an inventory row.
Balanced(b) == 0 <= b.reserved /\ b.reserved <= b.onHand

\* The CHECK constraints of inventory_items never fire: whatever requests
\* interleave, no unit is reserved that is not on hand (orders.py, docs/
\* workflows.md "A competing order cannot reserve the same available units").
NoOversell == \A i \in Item : Balanced(inventory[i])

(***************************************************************************)
(* The inductive invariant behind NoOversell: a row that a transaction has *)
(* locked is locked by nobody else, its uncommitted version is balanced,   *)
(* and each label of a thread comes with the data its statement uses.      *)
(***************************************************************************)
LocksExclusive == \A t, u \in Thread : t # u => locked[t] \cap locked[u] = {}

WorkBalanced == \A t \in Thread : \A i \in locked[t] : Balanced(work[t][i])

\* Every line of an order row is allocated, except those a running ingestion
\* still has to do.
RowsAllocated ==
  /\ \A e \in ExtId : orders[e] # NoOrder =>
       \A l \in LinesOf[orders[e].payload] : orders[e].alloc[l] \in Item
  /\ \A t \in Thread : row[t] # NoOrder =>
       /\ todo[t] \subseteq LinesOf[row[t].payload]
       /\ \A l \in LinesOf[row[t].payload] :
            \/ row[t].alloc[l] \in Item
            \/ l \in todo[t] /\ req[t] \in IngestRequest

ControlOf(t) ==
  /\ pc[t] = "idle" => req[t] = NoRequest
  /\ pc[t] \in {"lookupOrder", "lookupEvent", "insertOrder", "candidates",
                "readBefore", "reserve"} => req[t] \in IngestRequest
  /\ pc[t] \in {"lockOrder", "readItem", "moveItem"} =>
       req[t] \in StatusRequest
  /\ pc[t] \in {"lookupMovement", "lockItem", "adjust"} =>
       req[t] \in AdjustRequest
  /\ pc[t] = "commit" => todo[t] = {} /\ req[t] \in Request
  /\ req[t] \in AdjustRequest \cup {NoRequest} => row[t] = NoOrder
  /\ row[t] = NoOrder => todo[t] = {}
  /\ pc[t] \in {"candidates", "readBefore", "reserve", "readItem",
                "moveItem"} => row[t] # NoOrder
  /\ pc[t] \in {"readBefore", "reserve", "moveItem"} => line[t] \in todo[t]
  /\ pc[t] = "reserve" => cand[t] # <<>>
  /\ pc[t] = "adjust" => /\ req[t].adj.item \in locked[t]
                         /\ MayAdjust(work[t][req[t].adj.item],
                                      req[t].adj.delta)
Control == \A t \in Thread : ControlOf(t)

\* Every statement of a transaction keeps the balances it works on in order.
StockInv ==
  TypeOK /\ NoOversell /\ LocksExclusive /\ WorkBalanced /\ RowsAllocated
  /\ Control

\* The reserved quantity of a row is exactly what the open orders hold there:
\* no reservation leaks when an order is cancelled, dispatched, rolled back or
\* redelivered, and none is given back twice.
ReservedByOpenOrders ==
  \A i \in Item :
    inventory[i].reserved = Cardinality(UnitsHeld(orders, Open, i))

\* The movements of a ledger at row i that are of the given kinds, and their
\* sum.
Entries(M, kinds, i) == {m \in M : m.item = i /\ m.kind \in kinds}
Total(M) == SumFunctionOnSet([m \in M |-> m.delta], M)

\* Replaying the immutable ledger gives both balances of every row: every
\* change of a balance is committed with exactly one movement.
LedgerReplays ==
  \A i \in Item :
    /\ inventory[i].reserved =
         Total(Entries(movements, {"reservation", "release", "shipment"}, i))
    /\ inventory[i].onHand =
         InitialOnHand[i] + Total(Entries(movements, {"shipment", "adjustment"}, i))

\* What a ledger has on a line of an order, and what it should have.
LineEntries(M, e, l) ==
  {<<m.kind, m.item>> : m \in {n \in M : n.kind # "adjustment" /\ n.key = <<e, l>>}}
ExpectedEntries(o, l) ==
  {<<"reservation", o.alloc[l]>>}
  \cup (IF o.status = "cancelled" THEN {<<"release", o.alloc[l]>>} ELSE {})
  \cup (IF o.status \in Shipped THEN {<<"shipment", o.alloc[l]>>} ELSE {})

\* A committed order has all its lines reserved, each at one row of its SKU,
\* and each line leaves that reservation once: by a release exactly when the
\* order is cancelled, by a shipment exactly when it was dispatched.
LedgerMatchesOrders ==
  \A e \in ExtId, l \in Line :
    IF orders[e] # NoOrder /\ l \in LinesOf[orders[e].payload]
    THEN /\ orders[e].alloc[l] \in Candidates[l]
         /\ LineEntries(movements, e, l) = ExpectedEntries(orders[e], l)
    ELSE LineEntries(movements, e, l) = {}

\* A redelivery or a concurrent status request never rewrites an order: its
\* contents stay as first accepted and its status only takes allowed steps.
OrdersOnlyAdvance ==
  [][\A e \in ExtId : orders[e] # NoOrder =>
       /\ orders'[e] # NoOrder
       /\ orders'[e] = [orders[e] EXCEPT !.status = orders'[e].status]
       /\ orders'[e].status \in
            {orders[e].status} \cup AllowedTransitions[orders[e].status]]_orders

\* The service never finds its own bookkeeping inconsistent: the errors "Order
\* reservation is missing" and "Reserved inventory cannot be dispatched" are
\* not answered to any interleaving of legal requests.
ReservationsNeverMissing == \A t \in Thread : answer[t] # "missing"

\* One retry is enough: the second run of a command after an IntegrityError
\* finds the committed duplicate and is not answered 500.
OneRetrySettles == \A t \in Thread : answer[t] # "integrity"

\* Every request is answered: no waiting for row locks or unique keys, in any
\* order of the lines of two orders, lasts for ever.
EveryRequestEnds == \A t \in Thread : pc[t] # "idle" ~> pc[t] = "idle"

\* LOW_STOCK is stored with a movement exactly when that movement takes the
\* row from above its threshold to at or below it.
LowStockOnCrossing == \A m \in movements : m.low = m.crossed

\* "Marketplace event ID was reused for another order" is answered only when
\* the event belongs to an order with another external id.
ReuseMeansAnotherOrder ==
  [][\A t \in Thread :
       answer'[t] = "reused" /\ answer[t] # "reused" =>
         \A e \in EventOwner(req[t].hook.evt) : e # req[t].hook.ext]_vars

\* Every committed transaction is one indivisible operation of the stock book,
\* in the order of the commits.
Book == INSTANCE StockBook WITH
  applied <- {a \in Adjustment :
                \E m \in movements : /\ m.kind = "adjustment"
                                     /\ m.key = a.key
                                     /\ m.item = a.item
                                     /\ m.delta = a.delta}
ImplementsBook == Book!Spec
=============================================================================
