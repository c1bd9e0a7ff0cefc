# A TLA+ verification project for commerce operations

The modules in this directory model the commerce operations monolith: a FastAPI
application and a worker process that share one PostgreSQL database at READ
COMMITTED. TLC checks the modules on small instances; TLAPS proves, for every
instance, each invariant, each action property and each refinement that those
checks have. Liveness alone is left to TLC. `PROJECT.json` lists
the runs, the source lines of every definition, the hazards of the code and the
properties that watch them.

## 1. Inventory

All state that outlives a request is in the database. Three kinds of actors
change it: API requests (one transaction each, with a rollback and one retry of
the route after an `IntegrityError`), worker processes (poll, handle, retry) and
the clock (retry delays, deadlines, expiry of approvals). They interact through
rows: row locks, unique keys, row versions, and the `domain_events` outbox, in
which every business transaction stores its events.

| Component | State | Operations | What is hard | What makes it correct | Module |
|---|---|---|---|---|---|
| Orders (`application/orders.py`) | `orders`, `order_items`, reservations in `inventory_items`, `inventory_movements` | ingest, status change | redelivered and racing webhooks, lines locked one by one, two unlocked deduplication reads, threshold read before the lock | no unit is sold twice; reservations are exactly those of the open orders; the ledger replays to the balances; redelivery changes nothing | OrderStock |
| Inventory (`application/inventory.py`) | `inventory_items`, `inventory_movements`, received quantity of purchase orders | adjust, receive | the lookup of the idempotency key before the lock, unique keys, retry | every command takes effect once; receipts add up to the purchase and to the stock | OrderStock (adjust), Procurement (receive) |
| Outbox and processor (`events/`) | `domain_events`, `event_handler_receipts` | publish, poll, handle, acknowledge, record failure | several workers, a crash between handler and acknowledgement, unlocked updates of versioned rows | at-least-once delivery, effects once | EventWorker |
| Workflow engine (`workflows/engine.py`), worker (`worker.py`) | `workflow_runs` | start, execute, retry, expire, pause | savepoint of the step, last attempt, deadline against retry, `SKIP LOCKED` batches | bounded attempts, one failure report, finished runs stay finished, retries end | EventWorker |
| Approvals and policy (`approvals/`) | `approvals` | request, approve, reject, expire | decision against expiry against cancellation, linked run, what the approved action finds | a decision is final and its action runs once | Procurement, EventWorker; the actions in Listings, Pricing, CustomerService, Returns |
| Procurement (`application/procurement.py`) | `procurement_requests`, `purchase_orders`, their run | submit, approve, order, ship, cancel, complete | four rows of one purchase, locked in different orders by different calls | the rows agree after every commit; no calls wait for each other | Procurement |
| Workflow routing (`application/orchestration.py`) | rows of the other components | eight steps, one per event type | steps that find the world changed since the event | a step decides on the rows it finds, and its run tells the truth about them | Routes, Returns, Listings, CustomerService |
| Returns and refunds (`application/refunds.py`) | `returns`, `refunds`, their order and restocked rows | reconcile, request and approve a refund | repeated events and attempts, an order read without a lock, restock and status in one step | a return is restocked once; a refunded order stays refunded | Returns |
| Listings, publication, connectors (`application/listings.py`, `application/marketplace_publication.py`, `integrations/marketplaces/`) | `listing_drafts`, `marketplace_listings`, the marketplace | generate, approve, publish | racing agents, several external calls before the commit, lost answers | only approved content is shown, a record means that it is on sale, what is recorded is left alone | Listings |
| Customer service (`application/customer_service.py`) | `customer_conversations`, `customer_messages` | receive, classify, escalate, route, approve a response | rules against the answer of the model, event versions of a conversation, approver against router | no unsafe reply, no lowered risk, no run that waits for an approval already given | CustomerService |
| Pricing (`application/pricing.py`, `domains/pricing/`) | `pricing_decisions` | decide, approve | rounding up and half to even, floors, the threshold on a rounded percentage | margins hold after rounding; only small changes are automatic | Pricing |
| Product ingestion (`integrations/repository_1/`) | `products`, `suppliers`, quotes | ingest | racing inserts of products and shared suppliers | an answer agrees with what is stored | Ingestion |
| AI usage (`ai/usage.py`) | `agent_runs` | authorize, record | costs read before the provider call and recorded after it | the overrun of the monthly limit is bounded | AiBudget |
| Request security (`security/middleware.py`) | buckets in memory | authenticate, authorise, limit | the edge of the window, a full bucket | never more than the limit in a window | RequestGate |

Not modelled at all: migrations and deployment scripts (run before the
services), the application shell and configuration (constants of the modules),
observability (no decision reads it), the dashboard and the demonstration
(views and seed data), request schemas (pure validation).

## 2. Modules

| Module | Role |
|---|---|
| `StockModel` | rows of orders and inventory, order state machine, quantities |
| `StockBook` | abstract: each business operation on orders and stock is one step |
| `OrderStock` | detailed: every SQL statement of concurrent requests is a step |
| `OrderStockProofs` | TLAPS proofs about `OrderStock` |
| `WorkflowPromise` | abstract: what event processing promises |
| `EventWorker` | detailed: outbox, processor, worker loop, workflow engine |
| `EventWorkerProofs` | TLAPS proofs about `EventWorker` |
| `PurchaseBook` | abstract: stages and goods of a purchase |
| `Procurement` | detailed: procurement service, approvals, goods receipts |
| `ProcurementProofs` | TLAPS proofs about `Procurement` |
| `Ingestion` | concurrent ingestion of approved products |
| `Pricing` | price calculation and price decisions |
| `Listings`, `ListingsProofs` | listing drafts, publication, the four marketplaces |
| `CustomerService`, `CustomerServiceProofs` | one conversation, its messages and their approvals |
| `Returns`, `ReturnsProofs` | returns and refunds of one order |
| `Routes` | the routes of PRODUCT_APPROVED, PURCHASE_APPROVED and LOW_STOCK |
| `AiBudget` | spending limits of concurrent model calls |
| `RequestGate` | the request middleware |
| `ShopProofs` | TLAPS proofs about `Ingestion`, `Pricing`, `Routes`, `AiBudget` and `RequestGate` |
| `Sums` | lemmas about sums over finite sets, for the proofs about ledgers, returns and budgets |
| `MCOrderStock`, `MCEventWorker`, `MCProcurement`, `MCShop` | small instances for TLC |

`OrderStock` composes orders with inventory corrections, `EventWorker` the outbox
with the processor, the worker loop and the workflow engine, `Procurement` the
procurement service with approvals and goods receipts: where components race on
the same rows they share one module. `MCShop` runs the eight modules around a
sale side by side. They touch rows of their own, and meet the others only
through events and workflow runs, whose delivery and retry is the subject of
`EventWorker`; each of them therefore says in its header what an attempt of a
run, or a call, may find.

### OrderStock

`inventory`, `orders` and `movements` are the committed tables. Each request
thread has a program counter `pc`, its request, and the private state of its
transaction: rows it has locked (`locked`) with their uncommitted versions
(`work`), its order row (`row`) and its staged ledger entries. A plain SELECT
reads `Visible`; `SELECT ... FOR UPDATE` and the conditional UPDATEs of
`_reserve`, `_release_order` and `_ship_order` are disabled while another
transaction holds the row and then look at its newest version. `InsertOrder`
and `Adjust` wait for a transaction with the same unique key and go through
`Integrity`, the retry of the routes. `Commit` publishes everything at once.
`Deadlock` is PostgreSQL's deadlock detector: a member of a waiting cycle is
rolled back. `Crash` ends a request anywhere.

A payload is a model value; two deliveries have the same hash if they carry the
same payload. The lines of an order are handled in any order, and of rows with
equal availability any may come first, as the SQL leaves both open. The fields
`low` and `crossed` of a movement record that a LOW_STOCK event was stored with
it, and (history only) whether the row crossed its threshold at that moment.

### EventWorker

Each event has one handler, the workflow definition of its route. `Poll`,
`LockEvent`, `RunHandler`, `LoadEvent`, `MarkComplete`, `RecordFailure`,
`LockRuns` and `RetryDue` are the transactions of `run_once`, one step each, but
split where a lock or a stale row can get in between: `LockEvent` and
`RunHandler` are the two ends of the handler's transaction; `LoadEvent` and the
update after it are split because the row is loaded without a lock, and an
update in between makes it stale, which `StaleDataError` reports by ending the
process. A step may complete, pause for an approval, fail for good or raise;
`Execute` computes the row that `WorkflowEngine._execute` leaves behind. Time is
kept as countdowns: `wait` is `next_retry_at` and `left` is `deadline_at`, both
seen from now. Effects of a step are counted in `effects`, WORKFLOW_FAILED
events in `reports`.

`HandlerRaises` and `Crash` spend from the bound `MaxFaults`. An event whose
handler raises for ever is therefore outside this model; it is listed among the
hazards.

### Procurement

A purchase names its procurement request, workflow run, approval and purchase
order. A call of the API is one transaction, which takes its row locks step by
step and writes with its commit; which locks it holds follows from its program
counter (`LocksApproval`, `LocksOrder`, `LocksRequest`, `PlaceLocked`,
`KeyLocked`). `approve` locks the approval, then the request; `receive` looks
its idempotency key up without a lock, locks the purchase order, locks or inserts
the inventory row, inserts the movement, and with the last unit locks the
request. An `IntegrityError` makes the route run once more. The expiry of an
approval that is met by a decision is committed although the decision is
refused, as in the route. The order and ship commands update the purchase
order without having locked it.

### Ingestion

`ingest` takes no locks. Each caller is a transaction that looks the product up,
inserts it, looks the supplier up, inserts it if it is new, inserts the quote and
commits. An insert is disabled while another transaction holds the same unique
key and fails once that key is committed; the loser rolls back and looks the
product up again, and when there is none, because it lost a supplier and not the
product, the call fails with an error. `answers` is the history of what callers
were told.

### Pricing

`calculate_price` is a set of operators on scaled integers: amounts are counted
in parts of the last stored decimal place, so that an increment finer than this
place, and the two roundings (up to the increment, half to even at the stored
place), are exact. `WellFormed` is the request schema, `Command` fills missing
amounts from the cost basis and the settings, and a decision is created effective
or pending. The threshold is compared with the rounded percentage, as in the
policy.

### Listings

A draft is named by the STOCK_RECEIVED event that caused it. Agents read the
highest version of an SKU, generate, and insert the next version, whose unique
key lets one of them through. Approval starts a publication, which is an attempt
of a workflow run: insert the row (the unique key of the SKU makes a second
publication wait and then fail), call the marketplace, record, commit. A failure
rolls back what the database knows, not what the marketplace has seen. Each
connector is the sequence of calls it makes: eBay's inventory item, offer and
publication, each found again when repeated; Amazon's single put; one creation at
Facebook and TikTok, sent with a key that names the draft. The marketplaces are
external: `item`, `offer`, `onSale` and `posted` are what they have been told. What
Facebook or TikTok makes of a key that it has seen before is up to them and is not
assumed, so `posted` only counts the creations sent under each key. Whether a draft
satisfies the connector's field rules is a nondeterministic choice (`complete`).

### CustomerService

One conversation. Storing a message is one step under the lock of the
conversation row, after an unlocked lookup: rules first, then an answer of the
model or its failure, then the class, status and risk that follow. The answer
ranges over everything the response schema admits. Routing locks the message and
then the approval, approving locks the approval and then the message; the cycle
is broken by `BreakDeadlock`. An approver updates the conversation it read
before, and the update is refused when the version has moved.

### Returns

Each ORDER_RETURNED event is a run whose attempts are transactions: read the
return, then its order, look the receipt movement up, lock the inventory row and
add the units, check the refunds, move the order and complete the return. Both
rows carry their versions, because the attempt has read them without a lock: an
update of either is refused when its row has moved. People move the order
on, and request, approve and reject refunds, at any time.

### Routes

The three remaining steps with a decision of their own. An event is stored with
the change it announces and is handled once, at any later time, against the
purchases and units of that time.

### AiBudget and RequestGate

`AiBudget` has what matters of concurrent transactions that call the model: the
monthly limit is compared with the committed costs and the own uncommitted ones,
the cost of a call is added afterwards, a rollback loses it. The limit of a
workflow refuses nothing: every listing agent authorises its one call against the
workflow run that it has just created, which has no recorded cost, and the calls
for customer messages name no workflow. It is therefore not part of the module.
`RequestGate` is the
middleware of one process: bucket, window, limit, roles. `clock` is the only
time in it; `admitted` is history. The loop that drops old requests from the left
is the operator `Expired`: it stops at the first request of the window.

## 3. Runs

| Run | Instance | Question |
|---|---|---|
| `stock` | 2 threads, 2 rows with 2 and 1 units, an order of two lines and one of one line, redelivered unchanged, changed, under another event id and with a used event id, dispatched and cancelled, one key for two corrections; 231,900 states | Do balances, ledger and order table agree after every statement, are stored orders never rewritten, does one retry after an IntegrityError always settle, and do the statements implement `StockBook`? |
| `locks` | two orders of two lines on the same two rows, in any order of lines; 120,319 states, fairness | Is every request answered? |
| `lowstock` | two orders and a correction, through all statuses | Violation: LOW_STOCK is not stored exactly on a crossing. |
| `reuse` | redeliveries and corrections of other amounts | Violation: an exact redelivery is answered as a reused event id. |
| `pair` | 2 workers, 2 events, batch 1, 2 attempts, 2 faults, timeout of 4 ticks; 240,901 states | Are effects and failure reports committed once, do receipts match runs, is all of it an implementation of `WorkflowPromise`? |
| `live` | 2 workers, 2 events, 1 fault, fairness; 144,032 states | Is every stored event acknowledged, and does every retry end? |
| `approved` | 1 worker, 1 event, 3 attempts, fairness | Violation: a run whose approval is granted is not completed. |
| `purchase` | 2 threads, 2 purchases of two units, one place, two keys; 270,518 states | Do receipts add up, do the rows of a purchase agree, are decisions final, is it an implementation of `PurchaseBook`? |
| `calls_end` | 2 threads, 1 purchase, one key, fairness; 5,262 states | Is every call answered, although locks are taken in different orders? |
| `replay` | as `calls_end` | Violation: the repetition of a booked receipt is refused. |
| `shop` | the eight parts of `MCShop`, each on its own; 1,751,253 states | Do the properties of the parts hold (listed below)? |
| `messages` | three messages of one conversation | Violation: a message is refused although nobody has stored it. |

What `shop` checks, part by part:

| Part | Instance | Properties |
|---|---|---|
| ingestion | 2 callers, 2 products, 2 contents with one supplier | `AnswersStayTrue` |
| pricing | every request over the amounts of `MCPriceInput`, which put quotients, the threshold, the minimum and the maximum on and beside their boundaries | `PricesKeepMargins`, `AutomaticChangesAreSmall` |
| listings | 2 drafts of one SKU, each marketplace, with and without connector, 2 attempts, 3 faults | `VersionsCount`, `OnlyApprovedShown`, `PublishedIsOnSale`, `ListedIsLeftAlone` |
| service | 2 messages, handled by 2 callers, a calm and a risky text, every answer of the model | `RepliesAreSafe`, `ApprovedNeverWaits`, `RiskStays` |
| returns | 4 events of 3 returns of one item, 2 refunds, 2 attempts | `ReturnsReconciled`, `OrdersNeverReopen` |
| budget | 2 workflow steps of 3 calls, a customer message, a monthly limit of 5, calls that cost up to 2 | `OverrunIsBounded` |
| gate | a known client and its host, limit and window of 2, 3 seconds | `WindowHolds` |
| routes | 1 purchase, 2 items at levels 2 and 0, 3 events | `RoutesTellTruth` |

The parts share no variable, so an interleaving of two of them shows nothing that
one of them alone does not: a behaviour of `MCShop` picks its part in the initial
state. Its run does not check deadlock, because deliveries, messages, decisions
and the clock of a part are finite in number and the part may simply be done. Deadlock
is checked in all the other runs: there an actor can always be
restarted, or a new request can arrive.

Why the bounds are enough for the questions: the races of this code are between
two transactions on one row, key or event; two threads, or workers, meet in all
of them. Two orders and three units are the smallest stock that is too short;
two rows and two lines the smallest waiting cycle and the smallest order that
fails on a later line. Two attempts distinguish the first, a middle and the last
attempt of a run, and a timeout of four ticks lets a retry come due before, at
and after the deadline (`RetryDelay` is 1, so a first retry waits one tick). A
batch of one with two events puts a failing event before another one. Two units
make a partial and a completing receipt; two purchases meet at one place, where
only one product may be stored. Two drafts of one SKU race for a version and for
the listing, and three faults fail the calls of one publication twice and still
disturb the other. Three calls of a step, the number of listing agents, let
each of the others begin below a limit that all of them together overrun. An item
with a reorder level of zero is low only when it is empty. One event of a return
repeats another, a second return shares its inventory row, a third asks for more
than was ordered. A window of two seconds and a limit of two let a request come exactly one window after the
oldest.

Symmetry is used for threads, workers, keys and the two announcements of one
return, in safety runs only. The bounds that have no counterpart in the code are `MaxFaults` (of `EventWorker` and
of `Listings`), `MaxReceipt`, `MaxUnits`, `Horizon`, `MaxCost` and the finite
sets of requests (`Webhook`, `Adjustment`, `Target`, `PriceInput`).

### Fairness

* `OrderStock`, `Procurement`: strong fairness of the statements of each thread.
  PostgreSQL grants a row lock in the order of arrival, so a statement that can
  run again and again is run; it also aborts a member of each waiting cycle,
  which `OrderStock` models. `Procurement` has no deadlock detection in it: its
  run shows that none is needed. No request has to arrive and any may crash.
* `EventWorker`: strong fairness of the steps of each worker, because `run`
  loops for ever, both compose files restart the container (`restart:
  unless-stopped`), and row locks are granted in the order of arrival; weak
  fairness of the clock. Nobody has to publish, approve or reject.
* The modules of `MCShop` state no fairness: their properties are about what a
  step may not do.

### What the violations show

* `lowstock` (`application/orders.py:236`, `:360`): the availability before an
  update is read before the row is locked. A competing commit in between makes
  the service emit LOW_STOCK for a movement that does not cross the threshold, or
  omit one that does, against `docs/workflows.md:47`.
* `reuse` (`application/orders.py:86`): the two deduplication reads see two
  committed states, and an exact redelivery is answered 409 with the text that
  its event belongs to another order.
* `approved` (`approvals/engine.py:221`): the linked run of a granted approval
  is set RUNNING, and nothing executes it again, against
  `docs/workflows.md:126`. Where publication later closes the run itself, it
  writes the status past the workflow engine.
* `replay` (`application/inventory.py:131`): a receipt repeated while the first
  delivery runs is refused with 409, because the key is looked up only before
  the lock is waited for.
* `messages` (`application/customer_service.py:162`): the event of a message
  carries the version of its conversation, which is unique among these events,
  but the version moves only when the row changes. A message that leaves the
  conversation as it was uses the version up for the next one, which fails with
  an IntegrityError and is not stored, against `docs/workflows.md:65`.

### Met while modelling

These are consequences of the code that no run reports. The first three contradict a
document, but can be read off one expression and take no interleaving to see;
for the others nothing in the repository promises otherwise.

* The workflow spending limit refuses no call (`application/listings.py:109-132`,
  `ai/usage.py:59`): what a listing agent is authorised against is a new workflow
  run without a currency, and nothing is charged to the run of the step. The agents of
  one step go on when their calls have cost what `README.md:299` calls a "cost ceiling
  for one workflow".
* A repeated publication reads the stock again
  (`application/marketplace_publication.py:140`). Its payload may differ from that of
  the first attempt although both carry the key of the draft;
  `docs/approvals-and-autonomy.md:26` allows a repetition with the same payload.
* A step that fails an illegal order transition in a return is retried, although
  `docs/workflows.md:128` lists such failures as not retryable.
* The content of an eBay listing follows the newest draft, its price and quantity
  those of the offer that was created first (`connectors.py:124-127`).
* The production payload never contains image URLs, so that real publications
  fail validation; a second draft of a published SKU can never be published; a
  rejected or expired approval leaves draft and workflow pending.
* When the answer to a creation at Facebook or TikTok is lost, the next attempt
  posts again under the same key. Whether this makes a second product is up to the
  marketplace. A publication that fails for good may leave a product there.
* Two approved refunds that were decided after the reconciliation may exceed the
  total of the order, so the check of the refunds in a return bounds nothing and
  no property watches it; several partial returns may exceed what was sold.
* Approving an older answer sets an escalated conversation open again
  (`customer_service.py:417`); its risk stays.
* Approver and router of one message lock in opposite orders and can be each
  other's deadlock victim.

## 4. Proofs

| Theorem | States |
|---|---|
| `OrderStockProofs!InvariantHolds` | `Spec => []StockInv` |
| `OrderStockProofs!NeverOversells` | `Spec => []NoOversell` |
| `OrderStockProofs!TypeCorrect` | `Spec => []TypeOK` |
| `OrderStockProofs!OrdersAreKept` | `Spec => OrdersOnlyAdvance` |
| `OrderStockProofs!BookHolds` | `Spec => []BookInv` |
| `OrderStockProofs!ReservationsAreKept` | `Spec => []ReservedByOpenOrders` |
| `OrderStockProofs!ReservationsAreFound` | `Spec => []ReservationsNeverMissing` |
| `OrderStockProofs!OrdersKeepTheBook` | `Spec => ImplementsBook`: the refinement of `StockBook` |
| `OrderStockProofs!RetriesSettle` | `Spec => []OneRetrySettles` |
| `OrderStockProofs!LedgerHolds`, `LedgerAlwaysReplays`, `LedgerAlwaysMatches` | `Spec => []LedgerReplays`, `Spec => []LedgerMatchesOrders` |
| `EventWorkerProofs!WorkerInvariant` | the inductive invariant of the workers |
| `EventWorkerProofs!WorkersStayWellFormed` | `Spec => []TypeOK` |
| `EventWorkerProofs!EffectsAreCommittedOnce` | `Spec => []EffectsOnce` |
| `EventWorkerProofs!FailuresAreReportedOnce` | `Spec => []FailureReportedOnce` |
| `EventWorkerProofs!ReceiptsMeanRuns` | `Spec => []ReceiptsMatchRuns` |
| `EventWorkerProofs!RetriesAreBounded` | `Spec => []RetriesBounded` |
| `EventWorkerProofs!FinishedRunsAreKept` | `Spec => FinishedRunsStay` |
| `EventWorkerProofs!WorkersKeepThePromise` | `Spec => ImplementsPromise`: the refinement of `WorkflowPromise` |
| `ProcurementProofs!PurchaseInvariant` | `Spec => []PurchaseInv` |
| `ProcurementProofs!StagesAlwaysAgree` | `Spec => []StagesAgree` |
| `ProcurementProofs!DecisionsStayFinal` | `Spec => DecisionsAreFinal` |
| `ProcurementProofs!TypeCorrect` | `Spec => []TypeOK` |
| `ProcurementProofs!BookingInvariant` | keys and places belong to one receipt at a time |
| `ProcurementProofs!ProcurementKeepsTheBook` | `Spec => ImplementsBook`: the refinement of `PurchaseBook` |
| `ProcurementProofs!ReceiptsAlwaysAddUp` | `Spec => []ReceiptsAddUp` |
| `ListingsProofs!ListingsInvariant`, `ApprovalComesFirst`, `VersionsHaveNoGaps`, `RecordsAreOnSale`, `RecordsAreLeftAlone` | the three invariants and the action property of `Listings` |
| `CustomerServiceProofs!ServiceInvariant`, `RepliesStaySafe`, `NeverWaitsForApproved`, `EscalationsKeepTheirRisk` | the two invariants and the action property of `CustomerService` |
| `ReturnsProofs!ReturnsInvariant`, `ReturnsAreReconciled`, `RefundsStay` | `ReturnsSpec => []ReturnsReconciled`, `ReturnsSpec => OrdersNeverReopen` |
| `ShopProofs!IngestionInvariant`, `AnswersAreKept` | `IngestionSpec => []AnswersStayTrue` |
| `ShopProofs!RoutesInvariant`, `RunsTellTruth` | `RoutesSpec => []RoutesTellTruth` |
| `ShopProofs!PricesAlwaysKeepMargins`, `AutomaticChangesStaySmall` | `PricingSpec => []PricesKeepMargins`, `PricingSpec => []AutomaticChangesAreSmall` |
| `ShopProofs!OverrunStaysBounded` | `BudgetSpec => []OverrunIsBounded` |
| `ShopProofs!WindowAlwaysHolds` | `GateSpec => []WindowHolds` |

`NoOversell` is not inductive: a commit publishes the private versions of a
transaction, so these must be balanced too (`WorkBalanced`), nobody else may have
changed the row since it was locked (`LocksExclusive`), a line that is released
must have an inventory row (`RowsAllocated`), and the label of a thread must come
with the data that its statement uses (`Control`). `StockInv` is their
conjunction; run `stock` checks it as an invariant.

`EffectsOnce` needs to know that a worker in its handler phase runs on an event
without a receipt, that no other worker is in a handler of the same event, that
locked batches are disjoint and contain runs that are waiting for a retry, and
that a pending approval belongs to a paused run. `EventWorkerProofs` names these
parts (`Reads`, `Pauses`) and proves them together with the properties.

`StagesAgree` says that four rows of a purchase fit together after every commit,
and a call checks some of them long before it writes. `PurchaseInv` therefore
adds, for each call: the step it is at belongs to its operation (`Program`); what
it has checked of the rows that it has locked is still true (`Knows`); and no two
calls of one purchase have the same row locked (`Apart`). The lemma `Writes` of
`ProcurementProofs` says when a step keeps these three parts; each action needs
one lemma more, for the rows that it writes. The hard case is a call that writes
a row which it has not locked: the ship and cancel commands write the order that
a receipt may hold, and are safe because a receipt holds only a shipped order,
for which the state machine refuses both.

`OrdersOnlyAdvance` is about the moment of a commit, long after the order was
read: `RowsInv` says that the row a transaction is about to commit is new, or the
committed one with an allowed status, and that no two transactions have a row of
the same order.

`ReservedByOpenOrders` speaks of the committed tables, but a commit publishes
what many earlier statements have computed, some of them before other
transactions committed. `BookInv` therefore accounts for every transaction on its
way (`Works`): the rows it would read differ from the committed ones by exactly
the units of the lines it has handled so far (`Moved`), or by its correction.
`Placing`, `Changing` and `Adjusting` say what else it is about to commit: a new
order whose lines are allocated at rows of their SKU (`Fits`), the committed
order with the status asked for, or one movement under a key that is not booked.
`EventsApart` and `KeysApart` say that the unique keys admit one transaction at a
time. Units are counted as the pairs of a line and a number up to its quantity, so
that a sum over orders is the cardinality of a union and the facts about finite
sets replace an induction.

`RetriesSettle` adds for each thread that its second run (`Retried`) is at a
lookup that is going to find a committed row: keys that have been committed stay
(`KeysStay`), so that the second insert is never tried.

The refinements need no new state. `OrdersKeepTheBook` maps every statement before
a commit, every failure and every crash to a stutter, and the commit to the whole
operation on the committed tables, which `BookInv` makes equal to what the
statements have done one by one. `WorkersKeepThePromise` maps every step to a
step of the promise or to none: polling, loading, locking and dying are
stutters; a handler, a retry and a decision are the attempt, failure or decision
of one event. `ProcurementKeepsTheBook` needs one invariant more, `BookingInv`: a
key that a running receipt has inserted is booked by nobody, and is held by that
receipt alone; otherwise the receipt could be booked twice.

`ListingsInv` ties the five places that know about a draft together: a draft
whose run is underway has been validated and approved (`DraftOK`, `ConsentOK`);
the one transaction that has inserted the row of an SKU is alone with it, and
what the marketplace has seen so far is what the connector's next call assumes
(`InsertOK`); what is shown has been sent (`ShownOK`). `ListedIsLeftAlone` follows
step by step: only a publication that has inserted its row calls the marketplace,
and `InsertOK` excludes that while another draft of the SKU is recorded, so that the
row inserted before the first call protects the listing of another draft.
`ServiceInv` says of every
stored message that its class follows from its text and its answer, so that a
reply that was sent, or a draft that waits, is sound whatever happens later.
`ReturnsInv` needs the row lock (`Alone`), which makes the lookup of the receipt
movement reliable, and that an attempt which has read the current version of the
order knows its status (`Knows`). `IngestionInv` needs that an inserted product is
held by one caller and committed by nobody. `RoutesInv` needs that an approved
purchase has an order and that a proposed one has none.

Four properties are equalities or bounds over sums. A sum over a set is a fold,
and the induction theorems of the library cannot be instantiated, because they
take an operator as a parameter. `Sums` goes another way: `WFMin` speaks of sets
only, and says that a non-empty collection of subsets of a finite set has a
minimal member (`LeastSubset`). Applied to the subsets for which a fact fails, it
is an induction. `Sums` proves with it that the recursion behind
`SumFunctionOnSet` has exactly one solution, and from this that a sum is an
integer, may lose its elements in any order, adds up over disjoint sets, grows with
its summands, and changes by as much as one of them does.

* `LedgerReplays`: a commit adds to the ledger what many statements have staged,
  and sets the rows to what they have computed. `BookInv` knows by how much these
  rows differ from the committed ones. `LedgerInv` says the same of the ledger:
  the movements staged by a transaction are those of the lines that it has handled
  (`Traced`), and their sum at every row is that difference (`Summed`). The sum
  over both is the sum of the two only if the staged movements are new, and that
  they are follows from `LedgerMatchesOrders`: the ledger has no movement of an
  order that is not stored, no release or shipment of one that is open, and, by
  `BookInv`, no movement under the key of a running correction. So the two are
  proved together.
* `ReceiptsAddUp`: a receipt that commits has locked its order and its place, and
  its key is booked by nobody (`BookingInv`), so that its movement is new and adds
  to both sums once.
* `ReturnsReconciled`: `Counted` is the sum itself; it moves only when a return
  without a receipt movement is completed, which `Knows` and `Alone` guarantee for
  the attempt that adds the units.
* `OverrunIsBounded`: the recorded costs and what all open transactions may still
  add to them (`AllPending`, of which a call in progress counts for the most it can
  cost) stay below the limit plus one call for each call they can make. A call is
  authorised below the limit, so the bound is met again after it even if the
  transactions have all been authorised before. When one commits, its costs move
  from one summand to the other.

`WindowHolds` needs to know what a bucket has forgotten: `GateInv` says that it
holds all admitted requests of its key except the first n, and that those n are
out of the window (`Holds`, `Old`). A full bucket therefore shows the last Limit
admissions, and the first of them is a window away when the next is admitted.

The margins are arithmetic: the lemmas about `CeilDiv`, `RoundUp` and `HalfEven`
say that they are the least multiple above a quotient and the nearest integer, and
`PricingInv` that a stored decision is what these make of its input. A solver for
linear arithmetic does not find products of variables, so each lemma names the
products it needs. `AutomaticChangesAreSmall` rests on the threshold being a
whole number of the last places of the percentage: a change at or beyond it
cannot be rounded below it. (A setting with more places than
that is outside the model, which counts the threshold in whole percents.)

Assumptions of the proofs are the named ASSUMEs of the modules: finite sets of
rows, threads, workers and transactions, positive quantities, attempts, limits and
windows, the types of the constant functions, and that the values for "no row",
"no call" and "no amount" are none of the rows, calls and amounts.
`PricingAssumption` gives a request the fields of its schema, with any integers,
because the schema's bounds are the guard `WellFormed`, and gives the defaults the
bounds that the settings validate. `BudgetAssumption` allows limits of zero.

Only model-checked are the liveness properties, with the fairness they need, which
the prover does not handle: `EveryRequestEnds`, `EveryEventAcknowledged`,
`EveryRetryEnds` and `EveryCallEnds`. The five violations are counterexamples, so
there is nothing to prove about them. Two bounds of the model have no counterpart
in the code and are constants of the proofs like any other (`MaxFaults`,
`Horizon`): the theorems hold for every value of them.

## 5. Not modelled

* `update_listing`, `end_listing`, `get_listing` and `get_orders` of the
  connectors: nothing in the repository calls them.
* Events whose handler always raises, or whose payload cannot be decoded: the
  code retries them for ever, so nothing about their acknowledgement holds. They
  are listed as a hazard.
* The landed-cost average of a goods receipt, totals and customer identities of
  orders, generated texts, prompts, field rules and payload schemas: data that no
  property tells apart.
* The sum of several partial returns of one item: the code compares each return
  alone, which `Returns` models; nothing promises a bound, so none is checked.
* Migrations, deployment, the application shell, observability, the dashboard
  and the demonstration, as said in section 1.

The worker process registers five event types and an orchestrator without listing
agents, publication and customer service agent. The routes of the other events,
and `handle_message`, which has no API route, are modelled as they work when they
are wired, which the end-to-end tests do.
