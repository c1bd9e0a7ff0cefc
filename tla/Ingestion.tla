------------------------------ MODULE Ingestion ------------------------------
(***************************************************************************)
(* The ingestion of approved products: requests of the product             *)
(* intelligence system, each a transaction of its own, that create a       *)
(* product with its supplier, its quote and its procurement.  Nothing is   *)
(* locked: the unique keys of the rows decide who is first, an insert      *)
(* waits for an uncommitted row of its key, and the loser looks up what    *)
(* the winner has stored.                                                  *)
(***************************************************************************)
EXTENDS Naturals

CONSTANTS
  Caller,      \* concurrent requests of POST /approved-products
  Product,     \* source system and source product id
  Data,        \* contents of a request, by their hash
  SupplierOf,  \* the selected supplier of the contents
  QuoteOf,     \* the quote of the contents
  NoData       \* no contents

ASSUME IngestionAssumption == NoData \notin Data

VARIABLES
  calls,         \* the progress of each caller
  catalogue,      \* contents of the stored products
  suppliers,     \* stored suppliers
  quotes,        \* stored quotes with their suppliers
  procurements,  \* procurement requests, each with its PRODUCT_APPROVED event
  answers        \* what was answered to which request
ingestionVars ==
  <<calls, catalogue, suppliers, quotes, procurements, answers>>

Request == [product : Product, data : Data]
NoRequest == [product |-> NoData, data |-> NoData]
\* made: the caller has inserted the supplier itself.
Idle0 == [at |-> "idle", request |-> NoRequest, made |-> FALSE]
Steps == {"idle", "product", "supplier", "new_supplier", "quote", "commit", "lost"}

SupplierBy(c) == SupplierOf[calls[c].request.data]
QuoteBy(c) == <<SupplierBy(c), QuoteOf[calls[c].request.data]>>

\* Uncommitted rows.
HoldsProduct(c, p) ==
  /\ calls[c].at \in {"supplier", "new_supplier", "quote", "commit"}
  /\ calls[c].request.product = p
HoldsSupplier(c, s) == calls[c].made /\ SupplierBy(c) = s
HoldsQuote(c, q) == calls[c].at = "commit" /\ QuoteBy(c) = q

\* _existing_response compares the stored hash with that of the request.
Existing(r) == IF catalogue[r.product] = r.data THEN "duplicate" ELSE "conflict"
Answer(c, verdict) ==
  /\ answers' = answers \cup {<<calls[c].request, verdict>>}
  /\ calls' = [calls EXCEPT ![c] = Idle0]
MoveOn(c, at) ==
  /\ calls' = [calls EXCEPT ![c].at = at]
  /\ UNCHANGED <<catalogue, suppliers, quotes, procurements, answers>>

(***************************************************************************)
(* ApprovedProductIngestionService.ingest and ingest_approved_product      *)
(***************************************************************************)

\* The lookup of the product.
FindKnown(c, r) ==
  /\ calls[c].at = "idle"
  /\ catalogue[r.product] # NoData
  /\ answers' = answers \cup {<<r, Existing(r)>>}
  /\ UNCHANGED <<calls, catalogue, suppliers, quotes, procurements>>
FindNone(c, r) ==
  /\ calls[c].at = "idle"
  /\ catalogue[r.product] = NoData
  /\ calls' = [calls EXCEPT ![c] =
       [at |-> "product", request |-> r, made |-> FALSE]]
  /\ UNCHANGED <<catalogue, suppliers, quotes, procurements, answers>>

\* The product is flushed by the query for its supplier.
ProductFree(c) == TRUE
ProductUntaken(c) == catalogue[calls[c].request.product] = NoData
InsertProduct(c) ==
  /\ calls[c].at = "product"
  /\ \A d \in Caller : ~ HoldsProduct(d, calls[c].request.product)
  /\ MoveOn(c, IF ProductUntaken(c) THEN "supplier" ELSE "lost")

FindSupplier(c) ==
  /\ calls[c].at = "supplier"
  /\ MoveOn(c, IF SupplierBy(c) \in suppliers THEN "quote" ELSE "new_supplier")

InsertSupplier(c) ==
  /\ calls[c].at = "new_supplier"
  /\ \A d \in Caller : ~ HoldsSupplier(d, SupplierBy(c))
  /\ IF SupplierBy(c) \in suppliers
     THEN calls' = [calls EXCEPT ![c].at = "lost"]
     ELSE calls' = [calls EXCEPT ![c].at = "quote", ![c].made = TRUE]
  /\ UNCHANGED <<catalogue, suppliers, quotes, procurements, answers>>

InsertQuote(c) ==
  /\ calls[c].at = "quote"
  /\ \A d \in Caller : ~ HoldsQuote(d, QuoteBy(c))
  /\ IF QuoteBy(c) \in quotes
     THEN calls' = [calls EXCEPT ![c].at = "lost", ![c].made = FALSE]
     ELSE calls' = [calls EXCEPT ![c].at = "commit"]
  /\ UNCHANGED <<catalogue, suppliers, quotes, procurements, answers>>

\* The workflow run, the procurement and the event are committed with them.
CommitIngestion(c) ==
  LET r == calls[c].request IN
  /\ calls[c].at = "commit"
  /\ catalogue' = [catalogue EXCEPT ![r.product] = r.data]
  /\ suppliers' = suppliers \cup {SupplierBy(c)}
  /\ quotes' = quotes \cup {QuoteBy(c)}
  /\ procurements' = [procurements EXCEPT ![r.product] = @ + 1]
  /\ Answer(c, "accepted")

\* IntegrityError: rolled back, then find_existing_after_conflict.
FindAfterConflict(c) ==
  LET r == calls[c].request IN
  /\ calls[c].at = "lost"
  /\ Answer(c, IF catalogue[r.product] = NoData THEN "missing" ELSE Existing(r))
  /\ UNCHANGED <<catalogue, suppliers, quotes, procurements>>

\* Any other exception, or the death of the process.
AbandonIngestion(c) ==
  /\ calls[c].at # "idle"
  /\ calls' = [calls EXCEPT ![c] = Idle0]
  /\ UNCHANGED <<catalogue, suppliers, quotes, procurements, answers>>

(***************************************************************************)
(* The specification                                                       *)
(***************************************************************************)

IngestionInit ==
  /\ calls = [c \in Caller |-> Idle0]
  /\ catalogue = [p \in Product |-> NoData]
  /\ suppliers = {} /\ quotes = {}
  /\ procurements = [p \in Product |-> 0]
  /\ answers = {}

IngestionNext ==
  \E c \in Caller :
    \/ \E r \in Request : FindKnown(c, r) \/ FindNone(c, r)
    \/ InsertProduct(c) \/ FindSupplier(c) \/ InsertSupplier(c)
    \/ InsertQuote(c) \/ CommitIngestion(c) \/ FindAfterConflict(c)
    \/ AbandonIngestion(c)

IngestionSpec == IngestionInit /\ [][IngestionNext]_ingestionVars

(***************************************************************************)
(* Properties                                                              *)
(***************************************************************************)

\* Every product that was ever accepted, however many callers sent it at once,
\* has one procurement and one event, and what a caller was told stays true:
\* accepted and duplicate requests are stored as they were sent, a conflict is
\* with other data, and a supplier is stored for every quote.
AnswersStayTrue ==
  /\ \A p \in Product : procurements[p] = IF catalogue[p] = NoData THEN 0 ELSE 1
  /\ \A a \in answers :
       LET r == a[1]
           stored == catalogue[r.product]
       IN /\ a[2] \in {"accepted", "duplicate"} => stored = r.data
          /\ a[2] = "conflict" => stored \notin {NoData, r.data}
  /\ \A q \in quotes : q[1] \in suppliers
=============================================================================
