------------------------------ MODULE ShopProofs ------------------------------
(***************************************************************************)
(* What holds before and after a sale: the ingestion of products, the      *)
(* prices, the routes of events, the budget of the language model and the  *)
(* rate limit, for any number of callers, products, decisions, purchases,  *)
(* transactions and requests.                                              *)
(***************************************************************************)
EXTENDS Ingestion, Pricing, Routes, AiBudget, RequestGate, SequenceTheorems,
        Sums, TLAPS

(***************************************************************************)
(* Ingestion: what its callers are told stays true.                        *)
(***************************************************************************)

Verdicts == {"accepted", "duplicate", "conflict", "missing"}
CallState == [at : Steps, request : Request \cup {NoRequest}, made : BOOLEAN]

IngestionTypeOK ==
  /\ calls \in [Caller -> CallState]
  /\ catalogue \in [Product -> Data \cup {NoData}]
  /\ procurements \in [Product -> Nat]
  /\ answers \in SUBSET (Request \X Verdicts)

\* A caller that has inserted a product is alone with it, and nobody has
\* committed it.
ProductsAreHeldOnce ==
  \A c \in Caller :
    /\ calls[c].at # "idle" => calls[c].request \in Request
    /\ \A p \in Product : HoldsProduct(c, p) =>
         /\ catalogue[p] = NoData
         /\ \A d \in Caller : HoldsProduct(d, p) => d = c

IngestionInv == IngestionTypeOK /\ ProductsAreHeldOnce /\ AnswersStayTrue

TrueOf(r, verdict, stored) ==
  /\ verdict \in {"accepted", "duplicate"} => stored = r.data
  /\ verdict = "conflict" => stored \notin {NoData, r.data}

\* A new answer that is true of what is stored.
LEMMA AnswerIsTrue ==
  ASSUME IngestionInv, NEW r \in Request, NEW verdict \in Verdicts,
         TrueOf(r, verdict, catalogue[r.product]),
         answers' = answers \cup {<<r, verdict>>},
         UNCHANGED <<catalogue, suppliers, quotes, procurements>>
  PROVE  AnswersStayTrue' /\ answers' \in SUBSET (Request \X Verdicts)
<1>1. answers' \in SUBSET (Request \X Verdicts)
  BY DEF IngestionInv, IngestionTypeOK
<1>2. ASSUME NEW a \in answers'
      PROVE  TrueOf(a[1], a[2], catalogue'[a[1].product])
  <2>1. CASE a \in answers
    BY <2>1 DEF IngestionInv, AnswersStayTrue, TrueOf
  <2>2. CASE a = <<r, verdict>>
    BY <2>2
  <2> QED BY <2>1, <2>2
<1> QED BY <1>1, <1>2 DEF IngestionInv, AnswersStayTrue, TrueOf

LEMMA ExistingIsTrue ==
  ASSUME IngestionInv, NEW r \in Request, catalogue[r.product] # NoData
  PROVE  /\ Existing(r) \in Verdicts
         /\ TrueOf(r, Existing(r), catalogue[r.product])
BY DEF Existing, Verdicts, TrueOf

LEMMA IngestionInitInv == IngestionInit => IngestionInv
<1> SUFFICES ASSUME IngestionInit PROVE IngestionInv
  OBVIOUS
<1>1. IngestionTypeOK
  BY DEF IngestionInit, IngestionTypeOK, CallState, Idle0, Steps
<1>2. ProductsAreHeldOnce
  BY DEF IngestionInit, ProductsAreHeldOnce, HoldsProduct, Idle0
<1>3. AnswersStayTrue
  BY DEF IngestionInit, AnswersStayTrue
<1> QED BY <1>1, <1>2, <1>3 DEF IngestionInv

\* A caller that holds a product after a step has held it before.
LEMMA StepKeepsHolds ==
  ASSUME IngestionInv, NEW c \in Caller, NEW s \in CallState,
         calls' = [calls EXCEPT ![c] = s], UNCHANGED catalogue,
         s.at # "idle" => s.request \in Request,
         \A p \in Product :
           s.at \in {"supplier", "new_supplier", "quote", "commit"}
             /\ s.request.product = p => HoldsProduct(c, p)
  PROVE  ProductsAreHeldOnce'
<1>1. /\ calls'[c] = s
      /\ \A d \in Caller \ {c} : calls'[d] = calls[d]
  BY DEF IngestionInv, IngestionTypeOK
<1>2. \A d \in Caller, p \in Product : HoldsProduct(d, p)' => HoldsProduct(d, p)
  BY <1>1 DEF HoldsProduct
<1> QED BY <1>1, <1>2 DEF IngestionInv, ProductsAreHeldOnce

\* Nothing is stored and nobody answered.
LEMMA NothingStored ==
  ASSUME IngestionInv,
         UNCHANGED <<catalogue, suppliers, quotes, procurements, answers>>
  PROVE  AnswersStayTrue'
BY DEF IngestionInv, AnswersStayTrue

LEMMA LookupPreserves ==
  ASSUME IngestionInv, NEW c \in Caller, NEW r \in Request,
         FindKnown(c, r) \/ FindNone(c, r)
  PROVE  IngestionInv'
<1>1. CASE FindKnown(c, r)
  <2>1. AnswersStayTrue' /\ answers' \in SUBSET (Request \X Verdicts)
    BY <1>1, ExistingIsTrue, AnswerIsTrue DEF FindKnown
  <2>2. UNCHANGED <<calls, catalogue, procurements>>
    BY <1>1 DEF FindKnown
  <2>3. IngestionTypeOK' /\ ProductsAreHeldOnce'
    BY <2>1, <2>2 DEF IngestionInv, IngestionTypeOK, ProductsAreHeldOnce, HoldsProduct
  <2> QED BY <2>1, <2>3 DEF IngestionInv
<1>2. CASE FindNone(c, r)
  <2> DEFINE s == [at |-> "product", request |-> r, made |-> FALSE]
  <2>1. s \in CallState /\ s.at = "product" /\ s.request \in Request
    BY DEF CallState, Steps
  <2>2. /\ calls' = [calls EXCEPT ![c] = s]
        /\ UNCHANGED <<catalogue, suppliers, quotes, procurements, answers>>
    BY <1>2 DEF FindNone
  <2> HIDE DEF s
  <2>3. IngestionTypeOK'
    BY <2>1, <2>2 DEF IngestionInv, IngestionTypeOK
  <2>4. ProductsAreHeldOnce'
    BY <2>1, <2>2, StepKeepsHolds
  <2> QED BY <2>2, <2>3, <2>4, NothingStored DEF IngestionInv
<1> QED BY <1>1, <1>2

\* The steps of a caller between its lookup and its answer.
LEMMA ProgressPreserves ==
  ASSUME IngestionInv, NEW c \in Caller,
         \/ FindSupplier(c) \/ InsertSupplier(c) \/ InsertQuote(c)
         \/ AbandonIngestion(c)
  PROVE  IngestionInv'
<1>1. UNCHANGED <<catalogue, suppliers, quotes, procurements, answers>>
  BY DEF FindSupplier, InsertSupplier, InsertQuote, AbandonIngestion, MoveOn
<1>2. /\ calls[c] \in CallState
      /\ calls[c].at # "idle" => calls[c].request \in Request
  BY DEF IngestionInv, IngestionTypeOK, ProductsAreHeldOnce
<1>3. PICK s \in CallState :
        /\ calls' = [calls EXCEPT ![c] = s]
        /\ s.at # "idle" => s.request \in Request
        /\ s.at \in {"supplier", "new_supplier", "quote", "commit"} =>
             /\ calls[c].at \in {"supplier", "new_supplier", "quote", "commit"}
             /\ s.request = calls[c].request
  <2>1. CASE FindSupplier(c)
    <3>1. PICK at \in {"quote", "new_supplier"} :
            calls' = [calls EXCEPT ![c] = [calls[c] EXCEPT !.at = at]]
      BY <2>1 DEF FindSupplier, MoveOn, IngestionInv, IngestionTypeOK
    <3> DEFINE s == [calls[c] EXCEPT !.at = at]
    <3>2. /\ s \in CallState /\ s.request = calls[c].request
          /\ calls[c].at = "supplier"
      BY <1>2, <2>1 DEF CallState, Steps, FindSupplier
    <3> HIDE DEF s
    <3> QED BY <1>2, <3>1, <3>2 DEF s
  <2>2. CASE InsertSupplier(c)
    <3>1. PICK s \in {[calls[c] EXCEPT !.at = "lost"],
                      [calls[c] EXCEPT !.at = "quote", !.made = TRUE]} :
            calls' = [calls EXCEPT ![c] = s]
      BY <2>2 DEF InsertSupplier, IngestionInv, IngestionTypeOK
    <3>2. /\ s \in CallState /\ s.request = calls[c].request
          /\ calls[c].at = "new_supplier"
      BY <1>2, <2>2, <3>1 DEF CallState, Steps, InsertSupplier
    <3> QED BY <1>2, <3>1, <3>2
  <2>3. CASE InsertQuote(c)
    <3>1. PICK s \in {[calls[c] EXCEPT !.at = "lost", !.made = FALSE],
                      [calls[c] EXCEPT !.at = "commit"]} :
            calls' = [calls EXCEPT ![c] = s]
      BY <2>3 DEF InsertQuote, IngestionInv, IngestionTypeOK
    <3>2. /\ s \in CallState /\ s.request = calls[c].request
          /\ calls[c].at = "quote"
      BY <1>2, <2>3, <3>1 DEF CallState, Steps, InsertQuote
    <3> QED BY <1>2, <3>1, <3>2
  <2>4. CASE AbandonIngestion(c)
    <3>1. calls' = [calls EXCEPT ![c] = Idle0]
      BY <2>4 DEF AbandonIngestion
    <3>2. Idle0 \in CallState /\ Idle0.at = "idle"
      BY DEF Idle0, CallState, Steps
    <3> QED BY <3>1, <3>2
  <2> QED BY <2>1, <2>2, <2>3, <2>4
<1>4. IngestionTypeOK'
  BY <1>1, <1>3 DEF IngestionInv, IngestionTypeOK
<1>5. ProductsAreHeldOnce'
  BY <1>1, <1>3, StepKeepsHolds DEF HoldsProduct
<1> QED BY <1>1, <1>4, <1>5, NothingStored DEF IngestionInv
\* The row of the product is inserted while nobody holds it.
LEMMA InsertPreserves ==
  ASSUME IngestionInv, NEW c \in Caller, InsertProduct(c)
  PROVE  IngestionInv'
<1> DEFINE at == IF ProductUntaken(c) THEN "supplier" ELSE "lost"
           s == [calls[c] EXCEPT !.at = at]
           p == calls[c].request.product
<1>1. /\ calls' = [calls EXCEPT ![c] = s]
      /\ UNCHANGED <<catalogue, suppliers, quotes, procurements, answers>>
      /\ calls[c].at = "product"
      /\ \A d \in Caller : ~ HoldsProduct(d, p)
  BY DEF InsertProduct, MoveOn, IngestionInv, IngestionTypeOK
<1>2. /\ calls[c] \in CallState /\ calls[c].request \in Request
  BY <1>1 DEF IngestionInv, IngestionTypeOK, ProductsAreHeldOnce
<1>3. /\ s \in CallState /\ s.request = calls[c].request /\ s.at = at
  BY <1>2 DEF CallState, Steps
<1> HIDE DEF s
<1>4. calls'[c] = s /\ \A d \in Caller \ {c} : calls'[d] = calls[d]
  BY <1>1 DEF IngestionInv, IngestionTypeOK
<1>5. IngestionTypeOK'
  BY <1>1, <1>3 DEF IngestionInv, IngestionTypeOK
<1>6. CASE ~ ProductUntaken(c)
  <2>1. ProductsAreHeldOnce'
    BY <1>1, <1>2, <1>3, <1>6, StepKeepsHolds
  <2> QED BY <1>1, <1>5, <2>1, NothingStored DEF IngestionInv
<1>7. CASE ProductUntaken(c)
  <2>1. catalogue[p] = NoData
    BY <1>7 DEF ProductUntaken
  <2>2. \A d \in Caller, q \in Product :
          HoldsProduct(d, q)' => HoldsProduct(d, q) \/ (d = c /\ q = p)
    BY <1>3, <1>4 DEF HoldsProduct
  <2>3. \A d \in Caller : calls'[d].at # "idle" => calls'[d].request \in Request
    BY <1>2, <1>3, <1>4 DEF IngestionInv, ProductsAreHeldOnce
  <2>4. ProductsAreHeldOnce'
    BY <1>1, <2>1, <2>2, <2>3 DEF IngestionInv, ProductsAreHeldOnce
  <2> QED BY <1>1, <1>5, <2>4, NothingStored DEF IngestionInv
<1> QED BY <1>6, <1>7

\* The rows of a caller are committed.  Of its product, which had no contents,
\* nothing could be said before.
LEMMA CommitPreserves ==
  ASSUME IngestionInv, NEW c \in Caller, CommitIngestion(c)
  PROVE  IngestionInv'
<1> DEFINE r == calls[c].request
           p == r.product
<1>1. /\ calls[c].at = "commit"
      /\ catalogue' = [catalogue EXCEPT ![p] = r.data]
      /\ suppliers' = suppliers \cup {SupplierBy(c)}
      /\ quotes' = quotes \cup {QuoteBy(c)}
      /\ procurements' = [procurements EXCEPT ![p] = @ + 1]
      /\ answers' = answers \cup {<<r, "accepted">>}
      /\ calls' = [calls EXCEPT ![c] = Idle0]
  BY DEF CommitIngestion, Answer
<1>2. r \in Request /\ p \in Product /\ r.data \in Data /\ r.data # NoData
  BY <1>1, IngestionAssumption DEF IngestionInv, ProductsAreHeldOnce, Request
<1>3. HoldsProduct(c, p) /\ catalogue[p] = NoData
  BY <1>1, <1>2 DEF HoldsProduct, IngestionInv, ProductsAreHeldOnce
<1>4. /\ calls'[c] = Idle0 /\ \A d \in Caller \ {c} : calls'[d] = calls[d]
      /\ catalogue'[p] = r.data
      /\ \A q \in Product \ {p} : catalogue'[q] = catalogue[q]
  BY <1>1, <1>2 DEF IngestionInv, IngestionTypeOK
<1>5. IngestionTypeOK'
  BY <1>1, <1>2
     DEF IngestionInv, IngestionTypeOK, CallState, Idle0, Steps, Verdicts
<1>6. ProductsAreHeldOnce'
  <2>1. \A d \in Caller, q \in Product :
          HoldsProduct(d, q)' => d # c /\ HoldsProduct(d, q)
    BY <1>4 DEF HoldsProduct, Idle0
  <2>2. \A d \in Caller, q \in Product : HoldsProduct(d, q)' => q # p
    BY <1>2, <1>3, <2>1 DEF IngestionInv, ProductsAreHeldOnce
  <2>3. \A d \in Caller : calls'[d].at # "idle" => calls'[d].request \in Request
    BY <1>4 DEF Idle0, IngestionInv, ProductsAreHeldOnce
  <2> QED BY <1>4, <2>1, <2>2, <2>3 DEF IngestionInv, ProductsAreHeldOnce
<1>7. \A q \in Product : procurements'[q] = IF catalogue'[q] = NoData THEN 0 ELSE 1
  <2> SUFFICES ASSUME NEW q \in Product
               PROVE  procurements'[q] = IF catalogue'[q] = NoData THEN 0 ELSE 1
    OBVIOUS
  <2>1. procurements[q] = IF catalogue[q] = NoData THEN 0 ELSE 1
    BY DEF IngestionInv, AnswersStayTrue
  <2>2. procurements'[q] = IF q = p THEN procurements[q] + 1 ELSE procurements[q]
    BY <1>1 DEF IngestionInv, IngestionTypeOK
  <2> QED BY <1>2, <1>3, <1>4, <2>1, <2>2
<1>8. ASSUME NEW a \in answers'
      PROVE  TrueOf(a[1], a[2], catalogue'[a[1].product])
  <2>1. CASE a = <<r, "accepted">>
    BY <1>4, <2>1 DEF TrueOf
  <2>2. CASE a \in answers
    <3>1. /\ a[1].product \in Product /\ a[1].data \in Data
          /\ TrueOf(a[1], a[2], catalogue[a[1].product])
      BY <2>2 DEF IngestionInv, IngestionTypeOK, Request, AnswersStayTrue, TrueOf
    <3>2. CASE a[1].product = p
      BY <1>3, <3>1, <3>2, IngestionAssumption DEF TrueOf
    <3> QED BY <1>4, <3>1, <3>2
  <2> QED BY <1>1, <2>1, <2>2
<1>9. \A q \in quotes' : q[1] \in suppliers'
  BY <1>1 DEF IngestionInv, AnswersStayTrue, QuoteBy
<1>10. AnswersStayTrue'
  BY <1>7, <1>8, <1>9 DEF AnswersStayTrue, TrueOf
<1> QED BY <1>5, <1>6, <1>10 DEF IngestionInv

\* The loser of an insert is answered from what is stored.
LEMMA LoserPreserves ==
  ASSUME IngestionInv, NEW c \in Caller, FindAfterConflict(c)
  PROVE  IngestionInv'
<1> DEFINE r == calls[c].request
           verdict == IF catalogue[r.product] = NoData THEN "missing" ELSE Existing(r)
<1>1. /\ calls[c].at = "lost"
      /\ answers' = answers \cup {<<r, verdict>>}
      /\ calls' = [calls EXCEPT ![c] = Idle0]
      /\ UNCHANGED <<catalogue, suppliers, quotes, procurements>>
  BY DEF FindAfterConflict, Answer
<1>2. r \in Request
  BY <1>1 DEF IngestionInv, ProductsAreHeldOnce
<1>3. verdict \in Verdicts /\ TrueOf(r, verdict, catalogue[r.product])
  <2>1. CASE catalogue[r.product] = NoData
    BY <2>1 DEF Verdicts, TrueOf
  <2>2. CASE catalogue[r.product] # NoData
    BY <1>2, <2>2, ExistingIsTrue
  <2> QED BY <2>1, <2>2
<1> HIDE DEF verdict
<1>4. AnswersStayTrue' /\ answers' \in SUBSET (Request \X Verdicts)
  BY <1>1, <1>2, <1>3, AnswerIsTrue
<1>5. Idle0 \in CallState /\ Idle0.at = "idle"
  BY DEF Idle0, CallState, Steps
<1>6. ProductsAreHeldOnce'
  BY <1>1, <1>5, StepKeepsHolds
<1>7. IngestionTypeOK'
  BY <1>1, <1>4, <1>5 DEF IngestionInv, IngestionTypeOK
<1> QED BY <1>4, <1>6, <1>7 DEF IngestionInv

THEOREM IngestionInvariant == IngestionSpec => []IngestionInv
<1>1. IngestionInv /\ [IngestionNext]_ingestionVars => IngestionInv'
  <2> SUFFICES ASSUME IngestionInv, [IngestionNext]_ingestionVars
               PROVE  IngestionInv'
    OBVIOUS
  <2>1. CASE UNCHANGED ingestionVars
    BY <2>1 DEF ingestionVars, IngestionInv, IngestionTypeOK,
                ProductsAreHeldOnce, HoldsProduct, AnswersStayTrue
  <2>2. CASE \E c \in Caller : \E r \in Request : FindKnown(c, r) \/ FindNone(c, r)
    BY <2>2, LookupPreserves
  <2>3. CASE \E c \in Caller : InsertProduct(c)
    BY <2>3, InsertPreserves
  <2>4. CASE \E c \in Caller : \/ FindSupplier(c) \/ InsertSupplier(c)
                              \/ InsertQuote(c) \/ AbandonIngestion(c)
    BY <2>4, ProgressPreserves
  <2>5. CASE \E c \in Caller : CommitIngestion(c)
    BY <2>5, CommitPreserves
  <2>6. CASE \E c \in Caller : FindAfterConflict(c)
    BY <2>6, LoserPreserves
  <2> QED BY <2>1, <2>2, <2>3, <2>4, <2>5, <2>6 DEF IngestionNext
<1> QED BY <1>1, IngestionInitInv, PTL DEF IngestionSpec

\* However many callers send products and suppliers at once, and whichever of
\* them fails, an accepted product has one procurement and no answer turns out
\* to be wrong.
THEOREM AnswersAreKept == IngestionSpec => []AnswersStayTrue
<1>1. IngestionInv => AnswersStayTrue
  BY DEF IngestionInv
<1> QED BY <1>1, IngestionInvariant, PTL

(***************************************************************************)
(* Routes: what those of PRODUCT_APPROVED, PURCHASE_APPROVED and LOW_STOCK *)
(* leave behind, for any thresholds and any multiplier.                    *)
(***************************************************************************)

Status == {"proposed", "awaiting_approval", "approved", "ordered", "shipped",
           "received", "cancelled"}
RunStatus == {"none", "queued", "succeeded", "failed"}

RouteTypes ==
  /\ deals \in [Deal -> Status] /\ bought \in SUBSET Deal
  /\ told \in [Deal -> RunStatus] /\ confirmed \in [Deal -> RunStatus]
  /\ units \in [Shelf -> Nat] /\ alarms \in [Alarm -> RunStatus]
  /\ DOMAIN reorders = Alarm

\* A purchase has its order from the approval on; until then it can be
\* cancelled without one.
Bought ==
  \A p \in Deal : /\ deals[p] \in ApprovedStates => p \in bought
                  /\ deals[p] \in {"proposed", "awaiting_approval"} => p \notin bought

\* A recommendation has a value of its own and refills its item.
Refills ==
  \A e \in Alarm :
    /\ reorders[e] # NoReorder <=> alarms[e] = "succeeded"
    /\ reorders[e] # NoReorder =>
         /\ reorders[e].available <= Level[ShelfOf[e]]
         /\ reorders[e].available + reorders[e].suggested > Level[ShelfOf[e]]

RoutesInv == RouteTypes /\ PurchaseRunsAgree /\ Bought /\ Refills

\* The state machine of a purchase.
LEMMA TransitionFacts ==
  ASSUME NEW s \in Status, NEW t \in Transitions[s]
  PROVE  /\ s # "cancelled" /\ t \in Status /\ t # "proposed"
         /\ t = "approved" => s = "awaiting_approval"
         /\ t = "awaiting_approval" => s = "proposed"
         /\ t \in ApprovedStates \ {"approved"} => s \in ApprovedStates
BY DEF Status, Transitions, ApprovedStates

\* A reorder suggestion takes the item above its threshold.
LEMMA SuggestionRefills ==
  ASSUME RoutesAssumption, NEW i \in Shelf, units[i] \in Nat, units[i] <= Level[i]
  PROVE  Suggested(i) \in Nat /\ units[i] + Suggested(i) > Level[i]
<1> DEFINE S == {Level[i] * Multiplier, Level[i] + 1}
<1>1. Level[i] \in Nat /\ Multiplier \in Nat
  BY DEF RoutesAssumption
<1>2. Level[i] * Multiplier \in Nat
  BY <1>1
<1>3. \E x \in S : \A y \in S : x >= y
  <2>1. CASE Level[i] * Multiplier >= Level[i] + 1
    BY <1>1, <1>2, <2>1
  <2>2. CASE Level[i] + 1 >= Level[i] * Multiplier
    BY <1>1, <1>2, <2>2
  <2> QED BY <1>1, <1>2, <2>1, <2>2
<1>4. Max(S) \in S /\ Max(S) >= Level[i] + 1
  BY <1>3 DEF Max
<1>5. ReorderTarget(i) = Max(S)
  BY DEF ReorderTarget
<1>6. ReorderTarget(i) \in Nat /\ ReorderTarget(i) > Level[i]
  BY <1>1, <1>2, <1>4, <1>5
<1> QED BY <1>1, <1>6 DEF Suggested

LEMMA RoutesInitInv == RoutesAssumption /\ RoutesInit => RoutesInv
<1> SUFFICES ASSUME RoutesAssumption, RoutesInit PROVE RoutesInv
  OBVIOUS
<1>1. RouteTypes
  BY DEF RoutesInit, RouteTypes, Status, RunStatus, RoutesAssumption
<1>2. PurchaseRunsAgree /\ Bought /\ Refills
  BY DEF RoutesInit, PurchaseRunsAgree, Bought, Refills, ApprovedStates
<1> QED BY <1>1, <1>2 DEF RoutesInv

LEMMA DealPreserves ==
  ASSUME RoutesInv, NEW p \in Deal, MoveDeal(p)
  PROVE  RoutesInv'
<1>1. PICK t \in Transitions[deals[p]] : deals' = [deals EXCEPT ![p] = t]
  BY DEF MoveDeal
<1>2. /\ deals[p] \in Status /\ deals'[p] = t
      /\ \A q \in Deal \ {p} : deals'[q] = deals[q]
      /\ UNCHANGED <<told, units, alarms, reorders>>
  BY <1>1 DEF MoveDeal, RoutesInv, RouteTypes
<1>3. /\ t \in Status /\ t # "proposed" /\ deals[p] # "cancelled"
      /\ t = "approved" => deals[p] = "awaiting_approval"
      /\ t = "awaiting_approval" => deals[p] = "proposed"
      /\ t \in ApprovedStates \ {"approved"} => deals[p] \in ApprovedStates
  BY <1>1, <1>2, TransitionFacts
<1>4. Refills'
  BY <1>2 DEF RoutesInv, Refills
<1>5. CASE t = "approved"
  <2>1. bought' = bought \cup {p} /\ confirmed' = [confirmed EXCEPT ![p] = "queued"]
    BY <1>2, <1>5 DEF MoveDeal
  <2>2. RouteTypes'
    BY <1>1, <1>2, <1>3, <2>1 DEF RoutesInv, RouteTypes, RunStatus
  <2>3. Bought' /\ PurchaseRunsAgree'
    BY <1>2, <1>3, <1>5, <2>1 DEF RoutesInv, RouteTypes, Bought, PurchaseRunsAgree
  <2> QED BY <1>4, <2>2, <2>3 DEF RoutesInv
<1>6. CASE t # "approved"
  <2>1. UNCHANGED <<bought, confirmed>>
    BY <1>2, <1>6 DEF MoveDeal
  <2>2. RouteTypes'
    BY <1>1, <1>2, <1>3, <2>1 DEF RoutesInv, RouteTypes
  <2>3. Bought' /\ PurchaseRunsAgree'
    BY <1>2, <1>3, <1>6, <2>1 DEF RoutesInv, Bought, PurchaseRunsAgree, ApprovedStates
  <2> QED BY <1>4, <2>2, <2>3 DEF RoutesInv
<1> QED BY <1>5, <1>6

\* A run fails for a purchase that has been cancelled, and for no other.
LEMMA PurchaseRoutePreserves ==
  ASSUME RoutesInv, NEW p \in Deal, ProductToProcurement(p) \/ PurchaseToOrder(p)
  PROVE  RoutesInv'
<1>1. UNCHANGED <<deals, bought, units, alarms, reorders>>
  BY DEF ProductToProcurement, PurchaseToOrder
<1>2. deals[p] \in Status
  BY DEF RoutesInv, RouteTypes
<1>3. Bought' /\ Refills'
  BY <1>1 DEF RoutesInv, Bought, Refills
<1>4. CASE ProductToProcurement(p)
  <2>1. PICK s \in {"succeeded", "failed"} :
          /\ told' = [told EXCEPT ![p] = s] /\ UNCHANGED confirmed
          /\ s = "failed" => deals[p] \notin ActiveStates
    BY <1>4 DEF ProductToProcurement
  <2>2. s = "failed" => deals[p] = "cancelled"
    BY <1>2, <2>1 DEF Status, ActiveStates
  <2>3. RouteTypes' /\ PurchaseRunsAgree'
    BY <1>1, <2>1, <2>2 DEF RoutesInv, RouteTypes, PurchaseRunsAgree, RunStatus
  <2> QED BY <1>3, <2>3 DEF RoutesInv
<1>5. CASE PurchaseToOrder(p)
  <2>1. PICK s \in {"succeeded", "failed"} :
          /\ confirmed' = [confirmed EXCEPT ![p] = s] /\ UNCHANGED told
          /\ confirmed[p] = "queued"
          /\ s = "failed" => ~ (deals[p] \in ApprovedStates /\ p \in bought)
    BY <1>5 DEF PurchaseToOrder
  <2>2. p \in bought
    BY <2>1 DEF RoutesInv, PurchaseRunsAgree
  <2>3. s = "failed" => deals[p] = "cancelled"
    BY <1>2, <2>1, <2>2 DEF RoutesInv, Bought, Status, ApprovedStates
  <2>4. RouteTypes' /\ PurchaseRunsAgree'
    BY <1>1, <2>1, <2>2, <2>3
       DEF RoutesInv, RouteTypes, PurchaseRunsAgree, RunStatus
  <2> QED BY <1>3, <2>4 DEF RoutesInv
<1> QED BY <1>4, <1>5

\* Stock moves before and after a recommendation has been written.
LEMMA UnitsPreserve ==
  ASSUME RoutesAssumption, RoutesInv, NEW i \in Shelf, MoveUnits(i)
  PROVE  RoutesInv'
<1>1. UNCHANGED <<deals, bought, told, confirmed, reorders>>
  BY DEF MoveUnits
<1>2. units' \in [Shelf -> Nat]
  BY DEF MoveUnits, RoutesInv, RouteTypes, RoutesAssumption
<1>3. /\ alarms' \in [Alarm -> RunStatus]
      /\ \A e \in Alarm : alarms'[e] = "succeeded" <=> alarms[e] = "succeeded"
  BY DEF MoveUnits, RoutesInv, RouteTypes, RunStatus
<1>4. RouteTypes' /\ PurchaseRunsAgree' /\ Bought' /\ Refills'
  BY <1>1, <1>2, <1>3 DEF RoutesInv, RouteTypes, PurchaseRunsAgree, Bought, Refills
<1> QED BY <1>4 DEF RoutesInv

LEMMA ReorderPreserves ==
  ASSUME RoutesAssumption, RoutesInv, NEW e \in Alarm, LowStockToReorder(e)
  PROVE  RoutesInv'
<1> DEFINE i == ShelfOf[e]
           r == [available |-> units[i], suggested |-> Suggested(i)]
<1>1. /\ alarms[e] = "queued" /\ i \in Shelf /\ units[i] \in Nat /\ Level[i] \in Nat
      /\ UNCHANGED <<deals, bought, told, confirmed, units>>
  BY DEF LowStockToReorder, RoutesInv, RouteTypes, RoutesAssumption
<1>2. PurchaseRunsAgree' /\ Bought'
  BY <1>1 DEF RoutesInv, PurchaseRunsAgree, Bought
<1>3. CASE units[i] > Level[i]
  <2>1. alarms' = [alarms EXCEPT ![e] = "failed"] /\ UNCHANGED reorders
    BY <1>3 DEF LowStockToReorder
  <2>2. RouteTypes' /\ Refills'
    BY <1>1, <2>1 DEF RoutesInv, RouteTypes, Refills, RunStatus
  <2> QED BY <1>2, <2>2 DEF RoutesInv
<1>4. CASE ~ (units[i] > Level[i])
  <2>1. /\ alarms' = [alarms EXCEPT ![e] = "succeeded"]
        /\ reorders' = [reorders EXCEPT ![e] = r]
    BY <1>4 DEF LowStockToReorder
  <2>2. Suggested(i) \in Nat /\ units[i] + Suggested(i) > Level[i]
        /\ units[i] <= Level[i]
    BY <1>1, <1>4, SuggestionRefills
  <2>3. r \in [available : Nat, suggested : Nat]
    BY <1>1, <2>2
  <2>4. /\ r # NoReorder /\ r.available <= Level[i]
        /\ r.available + r.suggested > Level[i]
    BY <2>2, <2>3 DEF RoutesAssumption
  <2> HIDE DEF r
  <2>5. /\ reorders'[e] = r /\ alarms'[e] = "succeeded"
        /\ \A x \in Alarm \ {e} : reorders'[x] = reorders[x] /\ alarms'[x] = alarms[x]
    BY <2>1 DEF RoutesInv, RouteTypes
  <2>6. Refills'
    <3> SUFFICES ASSUME NEW x \in Alarm
                 PROVE  /\ reorders'[x] # NoReorder <=> alarms'[x] = "succeeded"
                        /\ reorders'[x] # NoReorder =>
                             /\ reorders'[x].available <= Level[ShelfOf[x]]
                             /\ reorders'[x].available + reorders'[x].suggested
                                  > Level[ShelfOf[x]]
      BY DEF Refills
    <3>1. CASE x = e
      BY <2>4, <2>5, <3>1
    <3>2. CASE x # e
      BY <2>5, <3>2 DEF RoutesInv, Refills
    <3> QED BY <3>1, <3>2
  <2>7. RouteTypes'
    BY <1>1, <2>1 DEF RoutesInv, RouteTypes, RunStatus
  <2> QED BY <1>2, <2>6, <2>7 DEF RoutesInv
<1> QED BY <1>3, <1>4

(***************************************************************************)
(* The invariant and what follows from it                                  *)
(***************************************************************************)

\* Purchases, their runs and the reorder recommendations fit together in every
\* reachable state.
THEOREM RoutesInvariant == RoutesSpec => []RoutesInv
<1>1. RoutesInit => RoutesInv
  BY RoutesInitInv, RoutesAssumption
<1>2. RoutesInv /\ [RoutesNext]_routeVars => RoutesInv'
  <2> SUFFICES ASSUME RoutesInv, [RoutesNext]_routeVars PROVE RoutesInv'
    OBVIOUS
  <2>1. ASSUME NEW p \in Deal,
               MoveDeal(p) \/ ProductToProcurement(p) \/ PurchaseToOrder(p)
        PROVE  RoutesInv'
    BY <2>1, DealPreserves, PurchaseRoutePreserves
  <2>2. ASSUME NEW i \in Shelf, MoveUnits(i) PROVE RoutesInv'
    BY <2>2, UnitsPreserve, RoutesAssumption
  <2>3. ASSUME NEW e \in Alarm, LowStockToReorder(e) PROVE RoutesInv'
    BY <2>3, ReorderPreserves, RoutesAssumption
  <2>4. CASE UNCHANGED routeVars
    BY <2>4 DEF routeVars, RoutesInv, RouteTypes, PurchaseRunsAgree, Bought, Refills
  <2> QED BY <2>1, <2>2, <2>3, <2>4 DEF RoutesNext
<1> QED BY <1>1, <1>2, PTL DEF RoutesSpec

\* However late its event is handled, a run of the three routes tells the truth
\* about its purchase, and a recommendation refills its item.
THEOREM RunsTellTruth == RoutesSpec => []RoutesTellTruth
<1>1. RoutesInv => RoutesTellTruth
  BY DEF RoutesInv, Refills, RoutesTellTruth, ReordersRefill
<1> QED BY <1>1, RoutesInvariant, PTL

(***************************************************************************)
(* Pricing: quotients and their roundings first, then the prices.          *)
(***************************************************************************)

\* A quotient and its remainder.
LEMMA DivMod ==
  ASSUME NEW n \in Int, NEW d \in Nat \ {0}
  PROVE  /\ n \div d \in Int /\ n % d \in 0 .. d - 1
         /\ n = d * (n \div d) + (n % d)
  BY SMT

\* Only d times an integer has no remainder.
LEMMA NoRemainder ==
  ASSUME NEW n \in Int, NEW d \in Nat \ {0}
  PROVE  /\ n % d = 0 => n = d * (n \div d)
         /\ \A q \in Int : n = d * q => n % d = 0
<1> PICK f, r : f = n \div d /\ r = n % d
  OBVIOUS
<1>1. f \in Int /\ r \in 0 .. d - 1 /\ n = d * f + r
  BY DivMod
<1>2. ASSUME NEW q \in Int, n = d * q PROVE r = 0
  <2> PICK g : g = q - f
    OBVIOUS
  <2>1. g \in Int /\ d * q = d * f + d * g
    BY <1>1
  <2>2. d * f \in Int /\ d * g \in Int
    BY <1>1, <2>1
  <2>3. r = d * g
    BY <1>1, <1>2, <2>1, <2>2
  <2>4. CASE g >= 1
    <3>1. d * g >= d
      BY <2>1, <2>4
    <3> QED BY <1>1, <2>3, <3>1
  <2>5. CASE g <= -1
    <3>1. d * g <= -d
      BY <2>1, <2>5
    <3> QED BY <1>1, <2>3, <3>1
  <2>6. CASE g = 0
    BY <2>3, <2>6
  <2> QED BY <2>1, <2>4, <2>5, <2>6
<1> QED BY <1>1, <1>2

LEMMA MultipleHasNone ==
  ASSUME NEW q \in Int, NEW d \in Nat \ {0}, NEW n, n = q * d
  PROVE  n % d = 0
<1>1. n \in Int /\ n = d * q
  BY SMT
<1> QED BY <1>1, NoRemainder

\* What rounding up yields.
LEMMA CeilDivIs ==
  ASSUME NEW n \in Int, NEW d \in Nat \ {0}, NEW q, q = CeilDiv(n, d)
  PROVE  q \in Int /\ q * d >= n /\ (q - 1) * d < n
<1> PICK m, f, r : m = -n /\ f = m \div d /\ r = m % d
  OBVIOUS
<1>0. m \in Int
  OBVIOUS
<1>1. f \in Int /\ r \in 0 .. d - 1 /\ m = d * f + r
  BY <1>0, DivMod
<1>2. q = -f
  BY DEF CeilDiv
<1>3. q * d = -(d * f) /\ (q - 1) * d = -(d * f) - d
  BY ONLY <1>1, <1>2, d \in Nat
<1>4. d * f \in Int
  BY <1>1
<1> QED BY <1>1, <1>2, <1>3, <1>4

\* p is the least multiple of i that is at least n / d.
IsRoundedUp(p, n, d, i) ==
  /\ p \in Int /\ p * d >= n /\ (p - i) * d < n
  /\ \E q \in Int : p = q * i
LEMMA RoundUpIs ==
  ASSUME NEW n \in Int, NEW d \in Nat \ {0}, NEW i \in Nat \ {0}
  PROVE  IsRoundedUp(RoundUp(n, d, i), n, d, i)
<1> PICK p : p = RoundUp(n, d, i)
  OBVIOUS
<1> PICK e, q : e = d * i /\ q = CeilDiv(n, e)
  OBVIOUS
<1>1. e \in Nat \ {0}
  BY ONLY e = d * i, d \in Nat \ {0}, i \in Nat \ {0}
<1>2. q \in Int /\ q * e >= n /\ (q - 1) * e < n
  BY <1>1, CeilDivIs
<1>3. p = q * i
  BY DEF RoundUp
<1>4. p * d = q * e
  BY ONLY <1>2, <1>3, e = d * i, d \in Nat, i \in Nat
<1>5. (p - i) * d = (q - 1) * e
  BY ONLY <1>2, <1>3, e = d * i, d \in Nat, i \in Nat
<1>6. p \in Int
  BY <1>2, <1>3
<1> QED BY <1>2, <1>3, <1>4, <1>5, <1>6 DEF IsRoundedUp

\* Rounding up keeps a multiple of the increment.
LEMMA RoundUpMultiple ==
  ASSUME NEW q \in Int, NEW i \in Nat \ {0}, NEW n, n = q * i
  PROVE  RoundUp(n, 1, i) = n
<1>1. n \in Int
  OBVIOUS
<1>2. PICK p : p = RoundUp(n, 1, i)
  OBVIOUS
<1> PICK d : d = 1
  OBVIOUS
<1>9. d \in Nat \ {0} /\ p = RoundUp(n, d, i)
  BY <1>2
<1>10. p \in Int /\ p * d >= n /\ (p - i) * d < n /\ \E u \in Int : p = u * i
  BY <1>1, <1>9, RoundUpIs DEF IsRoundedUp
<1>3. PICK u \in Int : p = u * i /\ p * 1 >= n /\ (p - i) * 1 < n /\ p \in Int
  BY <1>10
<1>4. p >= n /\ p - i < n
  BY ONLY <1>1, <1>3, i \in Nat
<1> PICK g : g = u - q
  OBVIOUS
<1>5. g \in Int /\ g * i = p - n
  BY ONLY <1>3, g = u - q, n = q * i, q \in Int, i \in Nat
<1>6. g * i >= 0 /\ g * i < i
  BY <1>1, <1>3, <1>4, <1>5
<1>7. g = 0
  <2>1. CASE g >= 1
    <3>1. g * i >= i
      BY <1>5, <2>1
    <3> QED BY <1>5, <1>6, <3>1
  <2>2. CASE g <= -1
    <3>1. g * i <= -i
      BY <1>5, <2>2
    <3> QED BY <1>5, <1>6, <3>1
  <2> QED BY <1>5, <2>1, <2>2
<1>8. u = q
  BY <1>3, <1>7
<1> QED BY <1>2, <1>3, <1>8

\* Rounding to the nearest is off by at most a half, and keeps the order.
LEMMA HalfEvenIs ==
  ASSUME NEW n \in Int, NEW d \in Nat \ {0}, NEW q, q = HalfEven(n, d)
  PROVE  /\ q \in Int /\ 2 * (q * d - n) <= d /\ 2 * (n - q * d) <= d
         /\ n % d = 0 => q * d = n
<1> PICK f, r : f = n \div d /\ r = n % d
  OBVIOUS
<1>1. f \in Int /\ r \in 0 .. d - 1 /\ n = d * f + r
  BY DivMod
<1>2. q = IF 2 * r > d \/ (2 * r = d /\ f % 2 = 1) THEN f + 1 ELSE f
  BY DEF HalfEven
<1> PICK p : p = d * f
  OBVIOUS
<1>3. p \in Int /\ n = p + r /\ (f + 1) * d = p + d /\ f * d = p
  BY <1>1
<1>4. CASE 2 * r > d \/ (2 * r = d /\ f % 2 = 1)
  <2>1. q = f + 1 /\ q * d = p + d /\ 2 * r >= d
    BY <1>1, <1>2, <1>3, <1>4
  <2> QED BY <1>1, <1>3, <2>1
<1>5. CASE ~ (2 * r > d \/ (2 * r = d /\ f % 2 = 1))
  <2>1. q = f /\ q * d = p /\ 2 * r <= d
    BY <1>1, <1>2, <1>3, <1>5
  <2> QED BY <1>1, <1>3, <2>1
<1> QED BY <1>4, <1>5

LEMMA HalfEvenKeepsOrder ==
  ASSUME NEW m \in Int, NEW n \in Int, NEW d \in Nat \ {0}, m <= n
  PROVE  HalfEven(m, d) <= HalfEven(n, d)
<1> PICK p, q : p = HalfEven(m, d) /\ q = HalfEven(n, d)
  OBVIOUS
<1>1. /\ p \in Int /\ 2 * (p * d - m) <= d
      /\ q \in Int /\ 2 * (n - q * d) <= d
  BY HalfEvenIs
<1> SUFFICES ASSUME p > q PROVE FALSE
  BY <1>1
<1> PICK g : g = p - q
  OBVIOUS
<1>2. g \in Int /\ g >= 1 /\ g * d = p * d - q * d
  BY <1>1
<1>3. g * d >= d
  BY <1>2
<1>4. p * d \in Int /\ q * d \in Int
  BY <1>1
<1>5. m = n
  BY <1>1, <1>2, <1>3, <1>4
<1> QED BY <1>1, <1>5

LEMMA QuantizedIs ==
  ASSUME NEW n \in Int
  PROVE  /\ Quantized(n) \in Int /\ Quantized(n) % Fine = 0
         /\ 2 * Abs(Quantized(n) - n) <= Fine
         /\ n % Fine = 0 => Quantized(n) = n
         /\ \A m \in Int : m <= n => Quantized(m) <= Quantized(n)
<1> PICK q, p : q = HalfEven(n, Fine) /\ p = Quantized(n)
  OBVIOUS
<1>1. Fine \in Nat \ {0}
  BY PricingAssumption
<1>2. /\ q \in Int /\ 2 * (q * Fine - n) <= Fine /\ 2 * (n - q * Fine) <= Fine
      /\ n % Fine = 0 => q * Fine = n
  BY <1>1, HalfEvenIs
<1>3. p = q * Fine /\ p \in Int
  BY <1>1, <1>2 DEF Quantized
<1>4. p % Fine = 0
  <2>1. p = Fine * q
    BY <1>1, <1>2, <1>3
  <2> QED BY <1>1, <1>2, <1>3, <2>1, NoRemainder
<1>5. 2 * Abs(p - n) <= Fine
  BY <1>1, <1>2, <1>3 DEF Abs
<1>6. ASSUME NEW m \in Int, m <= n PROVE Quantized(m) <= Quantized(n)
  <2> PICK u : u = HalfEven(m, Fine)
    OBVIOUS
  <2>1. u \in Int /\ u <= q
    BY <1>1, <1>6, HalfEvenIs, HalfEvenKeepsOrder
  <2>2. u * Fine <= q * Fine
    BY <1>1, <1>2, <2>1
  <2> QED BY <2>2 DEF Quantized
<1> QED BY <1>2, <1>3, <1>4, <1>5, <1>6

\* The inputs that a request and the settings give, with their constraints.
Quoted == [landed : Nat, fees : Nat, minMargin : 0 .. 99, targetMargin : 0 .. 99,
           current : Optional(Nat \ {0}), least : Nat,
           most : Optional(Nat \ {0}), increment : Nat \ {0}]

LEMMA CommandIs ==
  ASSUME NEW req \in PriceInput, WellFormed(req)
  PROVE  Command(req) \in Quoted
<1>1. /\ req \in [landed : Optional(Int), fees : Int, minMargin : Optional(Int),
                   targetMargin : Optional(Int), current : Optional(Int),
                   least : Optional(Int), most : Optional(Int), increment : Optional(Int)]
      /\ DOMAIN req = {"landed", "fees", "minMargin", "targetMargin", "current",
                       "least", "most", "increment"}
  BY PricingAssumption
<1>2. /\ Defaults \in [landed : Nat, minMargin : 0 .. 99, targetMargin : 0 .. 99,
                        least : Nat, most : Optional(Nat \ {0}), increment : Nat \ {0}]
      /\ DOMAIN Defaults = {"landed", "minMargin", "targetMargin", "least", "most", "increment"}
  BY PricingAssumption
<1> PICK in : in = Command(req)
  OBVIOUS
<1>3. in = [f \in DOMAIN req |->
              IF req[f] = NoAmount /\ f \in DOMAIN Defaults THEN Defaults[f] ELSE req[f]]
  BY DEF Command
<1>4. /\ in = [landed |-> in.landed, fees |-> in.fees, minMargin |-> in.minMargin,
               targetMargin |-> in.targetMargin, current |-> in.current,
               least |-> in.least, most |-> in.most, increment |-> in.increment]
  BY <1>1, <1>3
<1>5. NoAmount \notin Int
  BY PricingAssumption
<1>6. in.landed \in Nat /\ in.least \in Nat /\ in.fees \in Nat
  BY <1>1, <1>2, <1>3, <1>5 DEF WellFormed, Optional
<1>7. in.minMargin \in 0 .. 99 /\ in.targetMargin \in 0 .. 99
  BY <1>1, <1>2, <1>3, <1>5 DEF WellFormed, Optional
<1>8. in.current \in Optional(Nat \ {0}) /\ in.most \in Optional(Nat \ {0})
  BY <1>1, <1>2, <1>3, <1>5 DEF WellFormed, Optional
<1>9. in.increment \in Nat \ {0}
  BY <1>1, <1>2, <1>3, <1>5 DEF WellFormed, Optional
<1> QED BY <1>4, <1>6, <1>7, <1>8, <1>9 DEF Quoted

\* A product keeps the order of its factors.
LEMMA TimesKeepsOrder ==
  ASSUME NEW m \in Int, NEW n \in Int, NEW d \in Nat, m <= n
  PROVE  m * d <= n * d
<1> PICK g : g = n - m
  OBVIOUS
<1>1. g \in Nat /\ n * d = m * d + g * d
  BY ONLY g = n - m, m <= n, m \in Int, n \in Int, d \in Nat
<1>2. g * d \in Nat /\ m * d \in Int
  BY <1>1
<1> QED BY <1>1, <1>2

\* The floor is the least price that keeps the minimum margin.
LEMMA MinimumIs ==
  ASSUME NEW in \in Quoted
  PROVE  /\ Minimum(in) \in Int /\ \E u \in Int : Minimum(in) = u * in.increment
         /\ IsLeastPrice(Minimum(in), in, in.minMargin)
<1> PICK i, r, n, l : /\ i = in.increment /\ r = 100 - in.minMargin
                      /\ n = Cost(in) * 100 /\ l = in.least
  OBVIOUS
<1>1. i \in Nat \ {0} /\ r \in Nat \ {0} /\ n \in Int /\ l \in Int
  BY DEF Quoted, Cost
<1> PICK a, b, d : a = RoundUp(n, r, i) /\ d = 1 /\ b = RoundUp(l, d, i)
  OBVIOUS
<1>10. IsRoundedUp(a, n, r, i)
  BY <1>1, RoundUpIs
<1>2. a \in Int /\ a * r >= n /\ (a - i) * r < n /\ \E u \in Int : a = u * i
  BY <1>10 DEF IsRoundedUp
<1>3. b \in Int /\ b * d >= l /\ (b - i) * d < l /\ \E u \in Int : b = u * i
  <2>1. d \in Nat \ {0}
    OBVIOUS
  <2>2. IsRoundedUp(b, l, d, i)
    BY <1>1, <2>1, RoundUpIs
  <2> QED BY <2>2 DEF IsRoundedUp
<1>4. b >= l /\ b - i < l
  BY <1>1, <1>3
<1> PICK p : p = Minimum(in)
  OBVIOUS
<1>5. p = IF a > b THEN a ELSE b
  BY DEF Minimum, Larger
<1>6. p \in Int /\ p >= a /\ p >= b /\ \E u \in Int : p = u * i
  BY <1>2, <1>3, <1>5
<1>7. p % i = 0
  <2>1. PICK u \in Int : p = u * i
    BY <1>6
  <2> QED BY <1>1, <2>1, MultipleHasNone
<1>8. p >= l /\ p * r >= n
  <2>1. a * r <= p * r
    BY <1>1, <1>2, <1>6, TimesKeepsOrder
  <2>2. a * r \in Int /\ p * r \in Int
    BY <1>1, <1>2, <1>6
  <2> QED BY <1>1, <1>2, <1>3, <1>4, <1>6, <2>1, <2>2
<1>9. ~ (p - i >= l /\ (p - i) * r >= n)
  <2>1. CASE p = a
    <3>1. (a - i) * r \in Int
      BY <1>1, <1>2
    <3> QED BY <1>1, <1>2, <2>1, <3>1
  <2>2. CASE p = b
    BY <1>1, <1>3, <1>4, <2>2
  <2> QED BY <1>5, <2>1, <2>2
<1> QED BY <1>6, <1>7, <1>8, <1>9 DEF IsLeastPrice, Covers

\* The proposal is the least price that keeps the target margin, and no less
\* than the floor.
LEMMA RecommendedIs ==
  ASSUME NEW in \in Quoted, in.minMargin <= in.targetMargin
  PROVE  /\ Recommended(in) \in Int /\ \E u \in Int : Recommended(in) = u * in.increment
         /\ Recommended(in) >= Minimum(in)
         /\ IsLeastPrice(Recommended(in), in, in.targetMargin)
<1> PICK i, r, s, n, l, m : /\ i = in.increment /\ r = 100 - in.targetMargin
                         /\ s = 100 - in.minMargin
                         /\ n = Cost(in) * 100 /\ l = in.least /\ m = Minimum(in)
  OBVIOUS
<1>1. i \in Nat \ {0} /\ r \in Nat \ {0} /\ n \in Int /\ l \in Nat /\ s \in Nat /\ r <= s
  BY DEF Quoted, Cost
<1>2. /\ m \in Int /\ \E u \in Int : m = u * i
      /\ m >= l
      /\ ~ (m >= i /\ m - i >= l /\ (m - i) * s >= n)
  BY MinimumIs DEF IsLeastPrice, Covers
<1>3. RoundUp(m, 1, i) = m
  <2>1. PICK u \in Int : m = u * i
    BY <1>2
  <2>2. i \in Nat \ {0}
    BY <1>1
  <2> QED BY ONLY <2>1, <2>2, u \in Int, RoundUpMultiple
<1> PICK a, p : a = RoundUp(n, r, i) /\ p = Recommended(in)
  OBVIOUS
<1>10. IsRoundedUp(a, n, r, i)
  BY <1>1, RoundUpIs
<1>4. a \in Int /\ a * r >= n /\ (a - i) * r < n /\ \E u \in Int : a = u * i
  BY <1>10 DEF IsRoundedUp
<1>5. p = IF a > m THEN a ELSE m
  BY <1>3 DEF Recommended, Larger
<1>6. p \in Int /\ p >= a /\ p >= m /\ \E u \in Int : p = u * i
  BY <1>2, <1>4, <1>5
<1>7. p % i = 0
  <2>1. PICK u \in Int : p = u * i
    BY <1>6
  <2> QED BY <1>1, <2>1, MultipleHasNone
<1>8. p >= l /\ p * r >= n
  <2>1. a * r <= p * r
    BY <1>1, <1>4, <1>6, TimesKeepsOrder
  <2>2. a * r \in Int /\ p * r \in Int
    BY <1>1, <1>4, <1>6
  <2> QED BY <1>1, <1>2, <1>4, <1>6, <2>1, <2>2
<1>9. ~ (p >= i /\ p - i >= l /\ (p - i) * r >= n)
  <2>1. CASE p = a
    <3>1. (a - i) * r \in Int
      BY <1>1, <1>4
    <3> QED BY <1>1, <1>4, <2>1, <3>1
  <2>2. CASE p = m
    <3> SUFFICES ASSUME m >= i, m - i >= l, (m - i) * r >= n PROVE FALSE
      BY <2>2
    <3> PICK g : g = m - i
      OBVIOUS
    <3>1. g \in Nat
      BY <1>1, <1>2
    <3>2. r * g <= s * g
      BY <1>1, <3>1, TimesKeepsOrder
    <3>3. r * g \in Int /\ s * g \in Int /\ g * r = r * g /\ g * s = s * g
      BY <1>1, <3>1
    <3> QED BY <1>1, <1>2, <3>2, <3>3
  <2> QED BY <1>5, <2>1, <2>2
<1> QED BY <1>6, <1>7, <1>8, <1>9 DEF IsLeastPrice, Covers

\* What is stored of a price.
LEMMA StoredIs ==
  ASSUME NEW i \in Nat \ {0}, NEW u \in Int, NEW p, p = u * i
  PROVE  /\ i % Fine = 0 => Quantized(p) = p
         /\ 2 * Abs(Quantized(p) - p) <= Fine /\ Quantized(p) % Fine = 0
<1>1. p \in Int /\ Fine \in Nat \ {0}
  BY PricingAssumption
<1>2. ASSUME i % Fine = 0 PROVE p % Fine = 0
  <2> PICK v : v = i \div Fine
    OBVIOUS
  <2>1. v \in Int /\ i = Fine * v
    BY <1>1, <1>2, DivMod, NoRemainder
  <2>2. u * v \in Int /\ p = Fine * (u * v)
    BY <1>1, <2>1
  <2> QED BY <1>1, <2>2, NoRemainder
<1> QED BY <1>1, <1>2, QuantizedIs

\* A change that rounds to less than the threshold is less than it.
LEMMA SmallChange ==
  ASSUME NEW c \in Nat \ {0}, NEW p \in Int,
         Abs(HalfEven((p - c) * 100 * Places, c)) < Threshold * Places
  PROVE  Abs(p - c) * 100 < Threshold * c
<1> PICK x, n, q, t : /\ x = (p - c) * 100 /\ n = (p - c) * 100 * Places
                      /\ q = HalfEven(n, c) /\ t = Threshold * 10000
  OBVIOUS
<1>1. x \in Int /\ n \in Int /\ n = x * 10000 /\ t \in Int
  BY PricingAssumption DEF Places
<1>2. q \in Int /\ 2 * (q * c - n) <= c /\ 2 * (n - q * c) <= c
  BY <1>1, HalfEvenIs
<1>3. q <= t - 1 /\ -q <= t - 1
  BY <1>1, <1>2 DEF Abs, Places
<1>4. q * c <= (t - 1) * c /\ (-q) * c <= (t - 1) * c
  BY <1>1, <1>2, <1>3, TimesKeepsOrder
<1>5. (-q) * c = -(q * c) /\ q * c \in Int /\ (t - 1) * c = t * c - c /\ t * c \in Int
  BY <1>1, <1>2
<1>6. 2 * n < 2 * (t * c) /\ 2 * (-n) < 2 * (t * c)
  BY <1>1, <1>2, <1>4, <1>5
<1> PICK w : w = Threshold * c
  OBVIOUS
<1>7. w \in Int /\ t * c = w * 10000
  BY PricingAssumption
<1>8. x < w /\ -x < w
  BY <1>1, <1>6, <1>7
<1>9. Abs(p - c) * 100 = IF p - c < 0 THEN -x ELSE x
  BY DEF Abs
<1> QED BY <1>8, <1>9

(***************************************************************************)
(* The decisions.                                                          *)
(***************************************************************************)

\* A decision is what its input says, and what took effect without an approval
\* did not need one.
Drawn(d, a) ==
  /\ d \in PriceRow /\ d.input \in Quoted /\ Priceable(d.input)
  /\ d.minimum = Quantized(Minimum(d.input))
  /\ d.proposed = Quantized(Recommended(d.input))
  /\ d.policy = "allowed" => ~ NeedsApproval(d.input)
  /\ d.policy = "approved" => a = "approved"
PricingInv ==
  /\ decisions = [k \in Decision |-> decisions[k]]
  /\ assent = [k \in Decision |-> assent[k]]
  /\ \A k \in Made : Drawn(decisions[k], assent[k])
  /\ \A k \in Decision : assent[k] = "pending" => k \in Made

LEMMA PricingStarts == PricingInit => PricingInv
BY DEF PricingInit, PricingInv, Made

LEMMA CreateDecisionKeeps ==
  ASSUME PricingInv, NEW k \in Decision, NEW req \in PriceInput, CreateDecision(k, req)
  PROVE  PricingInv'
<1> PICK in : in = Command(req)
  OBVIOUS
<1>1. in \in Quoted /\ in \in {Command(r) : r \in PriceInput} /\ Priceable(in)
  BY CommandIs DEF CreateDecision
<1> PICK d, a : /\ d = [input |-> in, minimum |-> Quantized(Minimum(in)),
                        proposed |-> Quantized(Recommended(in)),
                        policy |-> IF NeedsApproval(in) THEN "approval_required"
                                                       ELSE "allowed"]
                /\ a = IF NeedsApproval(in) THEN "pending" ELSE "none"
  OBVIOUS
<1>2. /\ d.input = in /\ d.minimum = Quantized(Minimum(in))
      /\ d.proposed = Quantized(Recommended(in))
      /\ d.policy = IF NeedsApproval(in) THEN "approval_required" ELSE "allowed"
  OBVIOUS
<1>3. Quantized(Minimum(in)) \in Int /\ Quantized(Recommended(in)) \in Int
  BY <1>1, MinimumIs, RecommendedIs, QuantizedIs DEF Priceable, Acceptable
<1>4. d \in PriceRow
  BY <1>1, <1>3 DEF PriceRow
<1>5. Drawn(d, a)
  BY <1>1, <1>2, <1>4 DEF Drawn
<1>6. decisions' = [decisions EXCEPT ![k] = d] /\ assent' = [assent EXCEPT ![k] = a]
  BY DEF CreateDecision
<1>7. d # NoDecision
  BY <1>4, NoDecisionAssumption
<1> QED BY <1>5, <1>6, <1>7 DEF PricingInv, Made

LEMMA ApprovePriceKeeps ==
  ASSUME PricingInv, NEW k \in Decision, ApprovePrice(k)
  PROVE  PricingInv'
<1> PICK d, e : d = decisions[k] /\ e = [d EXCEPT !.policy = "approved"]
  OBVIOUS
<1>1. d.policy = "approval_required" /\ assent[k] = "pending"
  BY DEF ApprovePrice
<1>2. Drawn(d, assent[k])
  BY <1>1 DEF PricingInv, Made
<1>3. /\ e \in PriceRow /\ e.input = d.input /\ e.minimum = d.minimum
      /\ e.proposed = d.proposed /\ e.policy = "approved"
  BY <1>2 DEF Drawn, PriceRow
<1>4. Drawn(e, "approved")
  BY <1>2, <1>3 DEF Drawn
<1>5. decisions' = [decisions EXCEPT ![k] = e] /\ assent' = [assent EXCEPT ![k] = "approved"]
  BY DEF ApprovePrice
<1> QED BY <1>4, <1>5 DEF PricingInv, Made

LEMMA DeclinePriceKeeps ==
  ASSUME PricingInv, NEW k \in Decision, DeclinePrice(k)
  PROVE  PricingInv'
<1>1. PICK a \in {"rejected", "expired"} : assent' = [assent EXCEPT ![k] = a]
  BY DEF DeclinePrice
<1>2. assent[k] = "pending" /\ decisions' = decisions
  BY DEF DeclinePrice
<1>3. ASSUME NEW j \in Decision, decisions[j] # NoDecision
      PROVE  Drawn(decisions[j], assent'[j])
  BY <1>1, <1>2, <1>3 DEF PricingInv, Made, Drawn
<1> QED BY <1>1, <1>2, <1>3 DEF PricingInv, Made

LEMMA PricingKeeps ==
  ASSUME PricingInv, [PricingNext]_pricingVars
  PROVE  PricingInv'
<1>1. CASE UNCHANGED pricingVars
  BY <1>1 DEF PricingInv, Made, pricingVars
<1>2. CASE PricingNext
  BY <1>2, CreateDecisionKeeps, ApprovePriceKeeps, DeclinePriceKeeps DEF PricingNext
<1> QED BY <1>1, <1>2

LEMMA PricesAreKept == PricingInv => PricesKeepMargins
<1> SUFFICES ASSUME PricingInv, NEW k \in Made
             PROVE  LET d == decisions[k]
                        in == d.input
                        stored(p, q) == IF in.increment % Fine = 0 THEN p = q
                                        ELSE 2 * Abs(p - q) <= Fine /\ p % Fine = 0
                    IN /\ IsLeastPrice(Minimum(in), in, in.minMargin)
                       /\ IsLeastPrice(Recommended(in), in, in.targetMargin)
                       /\ in.most # NoAmount => Recommended(in) <= in.most
                       /\ stored(d.minimum, Minimum(in))
                       /\ stored(d.proposed, Recommended(in))
                       /\ d.minimum <= d.proposed
  BY DEF PricesKeepMargins
<1> PICK d, in, i, m, p : /\ d = decisions[k] /\ in = d.input /\ i = in.increment
                          /\ m = Minimum(in) /\ p = Recommended(in)
  OBVIOUS
<1>1. /\ in \in Quoted /\ Priceable(in)
      /\ d.minimum = Quantized(m) /\ d.proposed = Quantized(p)
  BY DEF PricingInv, Drawn
<1>2. i \in Nat \ {0} /\ in.minMargin <= in.targetMargin
  BY <1>1 DEF Quoted, Priceable, Acceptable
<1>3. m \in Int /\ (\E u \in Int : m = u * i) /\ IsLeastPrice(m, in, in.minMargin)
  BY <1>1, MinimumIs
<1>4. p \in Int /\ (\E u \in Int : p = u * i) /\ p >= m /\ IsLeastPrice(p, in, in.targetMargin)
  BY <1>1, <1>2, RecommendedIs
<1>5. in.most # NoAmount => p <= in.most
  BY <1>1 DEF Priceable
<1>6. IF i % Fine = 0 THEN d.minimum = m
      ELSE 2 * Abs(d.minimum - m) <= Fine /\ d.minimum % Fine = 0
  BY <1>1, <1>2, <1>3, StoredIs
<1>7. IF i % Fine = 0 THEN d.proposed = p
      ELSE 2 * Abs(d.proposed - p) <= Fine /\ d.proposed % Fine = 0
  BY <1>1, <1>2, <1>4, StoredIs
<1>8. d.minimum <= d.proposed
  <2>1. m <= p
    BY <1>3, <1>4
  <2> QED BY <1>1, <1>3, <1>4, <2>1, QuantizedIs
<1> QED BY <1>3, <1>4, <1>5, <1>6, <1>7, <1>8

LEMMA ChangesAreSmall == PricingInv => AutomaticChangesAreSmall
<1> SUFFICES ASSUME PricingInv, NEW k \in Effective
             PROVE  LET in == decisions[k].input
                    IN \/ assent[k] = "approved"
                       \/ in.current = NoAmount
                       \/ Abs(Recommended(in) - in.current) * 100 < Threshold * in.current
  BY DEF AutomaticChangesAreSmall
<1> PICK d, in, c, p : /\ d = decisions[k] /\ in = d.input /\ c = in.current
                       /\ p = Recommended(in)
  OBVIOUS
<1>1. /\ in \in Quoted /\ Priceable(in)
      /\ d.policy = "allowed" => ~ NeedsApproval(in)
      /\ d.policy = "approved" => assent[k] = "approved"
      /\ d.policy \in {"allowed", "approved"}
  BY DEF PricingInv, Drawn, Effective
<1> SUFFICES ASSUME d.policy = "allowed", c # NoAmount
             PROVE  Abs(p - c) * 100 < Threshold * c
  BY <1>1
<1>2. c \in Nat \ {0}
  BY <1>1 DEF Quoted, Optional
<1>3. p \in Int
  BY <1>1, RecommendedIs DEF Priceable, Acceptable
<1>4. ~ (Abs(HalfEven((p - c) * 100 * Places, c)) >= Threshold * Places)
  BY <1>1 DEF NeedsApproval, Change
<1>5. Abs(HalfEven((p - c) * 100 * Places, c)) \in Int /\ Threshold * Places \in Int
  <2> PICK n : n = (p - c) * 100 * Places
    OBVIOUS
  <2>1. n \in Int
    BY <1>2, <1>3 DEF Places
  <2>2. HalfEven(n, c) \in Int
    BY ZenonT(40), <1>2, <2>1, HalfEvenIs
  <2> QED BY <2>2, PricingAssumption DEF Abs, Places
<1>6. Abs(HalfEven((p - c) * 100 * Places, c)) < Threshold * Places
  BY <1>4, <1>5
<1> QED BY <1>2, <1>3, <1>6, SmallChange

\* Every stored price is the least one that keeps its margin, whatever the
\* costs, margins, increments and order of the requests and approvals.
THEOREM PricesAlwaysKeepMargins == PricingSpec => []PricesKeepMargins
<1>1. PricingInv /\ [PricingNext]_pricingVars => PricingInv'
  BY PricingKeeps
<1> QED BY PricingStarts, <1>1, PricesAreKept, PTL DEF PricingSpec

\* No price takes effect by itself whose exact change reaches the threshold,
\* although the code compares a rounded percentage.
THEOREM AutomaticChangesStaySmall == PricingSpec => []AutomaticChangesAreSmall
<1>1. PricingInv /\ [PricingNext]_pricingVars => PricingInv'
  BY PricingKeeps
<1> QED BY PricingStarts, <1>1, ChangesAreSmall, PTL DEF PricingSpec

(***************************************************************************)
(* AiBudget: how far concurrent calls exceed the monthly limit.            *)
(***************************************************************************)

\* What a transaction may still add to the recorded costs with the calls that it
\* has made.
CallsOf(a) == IF a \in Step THEN Calls ELSE 1
Pending(a) == session[a].cost + IF session[a].open THEN MaxCost ELSE 0
AllPending == SumFunctionOnSet([a \in Agent |-> Pending(a)], Agent)

\* What the calls of a transaction have cost, and what it is allowed.
SessionInv(a) ==
  LET s == session[a] IN
  /\ s \in [cost : Nat, calls : 0 .. CallsOf(a), open : BOOLEAN]
  /\ s.open => s.calls > 0
  /\ Pending(a) <= MaxCost * s.calls
BudgetInv ==
  /\ recorded \in Nat
  /\ session \in [Agent -> [cost : Nat, calls : Nat, open : BOOLEAN]]
  /\ \A a \in Agent : SessionInv(a)
  /\ IF MonthlyLimit = 0
     THEN recorded = 0 /\ \A a \in Agent : session[a] = Closed
     ELSE recorded + AllPending <= MonthlyLimit - 1 + MaxCost * AllCalls

LEMMA BudgetConstants ==
  /\ Step \subseteq Agent /\ IsFiniteSet(Agent) /\ IsFiniteSet(Step)
  /\ IsFiniteSet(Agent \ Step)
  /\ MonthlyLimit \in Nat /\ MaxCost \in Nat
  /\ Calls \in Nat \ {0} /\ AllCalls \in Nat
  /\ \A a \in Agent : CallsOf(a) \in Nat \ {0}
<1>1. /\ IsFiniteSet(Step) /\ IsFiniteSet(Agent \ Step)
  BY FS_Subset, BudgetAssumption
<1>2. Cardinality(Agent \ Step) \in Nat /\ Cardinality(Step) \in Nat
  BY <1>1, FS_CardinalityType
<1>3. Calls * Cardinality(Step) \in Nat
  BY <1>2, BudgetAssumption
<1> QED BY <1>1, <1>2, <1>3, BudgetAssumption DEF AllCalls, CallsOf

LEMMA Times ==
  ASSUME NEW n \in Nat
  PROVE  /\ MaxCost * n \in Nat /\ MaxCost * (n + 1) = MaxCost * n + MaxCost
         /\ \A k \in 0 .. n : MaxCost * k <= MaxCost * n
<1>1. MaxCost \in Nat
  BY BudgetConstants
<1>2. ASSUME NEW k \in 0 .. n PROVE MaxCost * k <= MaxCost * n
  <2>1. MaxCost * n = MaxCost * k + MaxCost * (n - k)
    BY <1>1
  <2>2. MaxCost * (n - k) \in Nat /\ MaxCost * k \in Nat
    BY <1>1
  <2> QED BY <2>1, <2>2
<1> QED BY <1>1, <1>2

\* One round of the calls of all transactions bounds what is pending.
LEMMA RoundIsBounded ==
  ASSUME NEW f,
         \A a \in Agent : f[a] \in Nat /\ f[a] <= MaxCost * CallsOf(a)
  PROVE  SumFunctionOnSet(f, Agent) \in 0 .. MaxCost * AllCalls
<1> DEFINE none == [a \in Agent |-> 0]
           most == [a \in Agent |-> MaxCost * CallsOf(a)]
           cs == Cardinality(Step)
           cr == Cardinality(Agent \ Step)
<1>1. /\ \A a \in Agent : /\ f[a] \in Int /\ most[a] \in Int /\ none[a] \in Int
                          /\ f[a] <= most[a] /\ none[a] <= f[a]
      /\ \A a \in Agent : none[a] = 0
  BY BudgetConstants
<1>2. IsFiniteSet(Agent) /\ IsFiniteSet(Step) /\ IsFiniteSet(Agent \ Step)
  BY BudgetConstants
<1>3. \A a \in Step : most[a] = MaxCost * Calls
  BY BudgetConstants DEF CallsOf
<1>4. \A a \in Agent \ Step : most[a] = MaxCost
  BY BudgetConstants DEF CallsOf
<1> HIDE DEF none, most
<1>5. SumFunctionOnSet(f, Agent) \in Int
  BY <1>1, <1>2, SumInt
<1>6. /\ SumFunctionOnSet(f, Agent) <= SumFunctionOnSet(most, Agent)
      /\ SumFunctionOnSet(none, Agent) <= SumFunctionOnSet(f, Agent)
  BY <1>1, <1>2, SumMonotonic
<1>7. SumFunctionOnSet(most, Agent) =
        SumFunctionOnSet(most, Agent \ Step) + SumFunctionOnSet(most, Step)
  <2>1. /\ Agent = (Agent \ Step) \cup Step /\ (Agent \ Step) \cap Step = {}
        /\ \A a \in (Agent \ Step) \cup Step : most[a] \in Int
    BY <1>1, BudgetConstants
  <2>2. SumFunctionOnSet(most, (Agent \ Step) \cup Step) =
        SumFunctionOnSet(most, Agent \ Step) + SumFunctionOnSet(most, Step)
    BY <1>2, <2>1, SumUnion
  <2> QED BY <2>1, <2>2
<1>8. cs \in Nat /\ cr \in Nat /\ MaxCost \in Int /\ Calls \in Int /\ MaxCost * Calls \in Int
  BY <1>2, FS_CardinalityType, BudgetConstants
<1>9. SumFunctionOnSet(most, Step) = (MaxCost * Calls) * cs
  <2> HIDE DEF cs
  <2> QED BY <1>2, <1>3, <1>8, SumConstant DEF cs
<1>10. SumFunctionOnSet(most, Agent \ Step) = MaxCost * cr
  BY <1>2, <1>4, <1>8, SumConstant
<1>11. AllCalls = cr + Calls * cs
  BY DEF AllCalls
<1> HIDE DEF cs, cr
<1>12. MaxCost * (cr + Calls * cs) = MaxCost * cr + (MaxCost * Calls) * cs
  BY <1>8
<1>13. SumFunctionOnSet(none, Agent) = 0
  <2>1. SumFunctionOnSet(none, Agent) = 0 * Cardinality(Agent)
    BY <1>1, <1>2, SumConstant
  <2> QED BY <1>2, <2>1, FS_CardinalityType
<1> QED BY <1>5, <1>6, <1>7, <1>9, <1>10, <1>11, <1>12, <1>13

\* So it does in every state.
LEMMA PendingIsBounded ==
  ASSUME NEW f, NEW ss \in [Agent -> [cost : Nat, calls : Nat, open : BOOLEAN]],
         \A a \in Agent : /\ f[a] \in Nat /\ f[a] <= MaxCost * ss[a].calls
                         /\ ss[a].calls <= CallsOf(a)
  PROVE  SumFunctionOnSet(f, Agent) \in 0 .. MaxCost * AllCalls
<1>1. ASSUME NEW a \in Agent PROVE f[a] \in Nat /\ f[a] <= MaxCost * CallsOf(a)
  <2>1. ss[a].calls \in 0 .. CallsOf(a) /\ CallsOf(a) \in Nat
    BY BudgetConstants
  <2>2. /\ MaxCost * ss[a].calls <= MaxCost * CallsOf(a)
        /\ MaxCost * CallsOf(a) \in Nat /\ MaxCost * ss[a].calls \in Nat
    BY <2>1, Times
  <2> QED BY <2>2
<1> QED BY <1>1, RoundIsBounded

LEMMA InitBudget == BudgetInit => BudgetInv
<1> SUFFICES ASSUME BudgetInit PROVE BudgetInv
  OBVIOUS
<1>1. /\ recorded = 0
      /\ session \in [Agent -> [cost : Nat, calls : Nat, open : BOOLEAN]]
      /\ \A a \in Agent : session[a] = Closed
  BY DEF BudgetInit, Closed
<1>2. ASSUME NEW a \in Agent PROVE SessionInv(a)
  <2>1. CallsOf(a) \in Nat /\ MaxCost * 0 \in Nat /\ MaxCost * 0 = 0
    BY BudgetConstants
  <2> QED BY <1>1, <2>1, BudgetConstants DEF SessionInv, Pending, Closed
<1>3. AllPending \in Int /\ AllPending <= MaxCost * AllCalls
  <2>1. \A a \in Agent :
          /\ Pending(a) \in Nat /\ Pending(a) <= MaxCost * session[a].calls
          /\ session[a].calls <= CallsOf(a)
    BY <1>1, <1>2, BudgetConstants DEF SessionInv, Pending
  <2>2. AllPending \in 0 .. MaxCost * AllCalls
    BY <1>1, <2>1, PendingIsBounded DEF AllPending
  <2> QED BY <2>2, BudgetConstants
<1>4. AllCalls \in Nat /\ MaxCost * AllCalls \in Nat /\ MonthlyLimit \in Nat
  BY BudgetConstants
<1> QED BY <1>1, <1>2, <1>3, <1>4 DEF BudgetInv

\* A step of one transaction after which no more is recorded and pending.
LEMMA BudgetMoves ==
  ASSUME BudgetInv, NEW a \in Agent,
         NEW s \in [cost : Nat, calls : Nat, open : BOOLEAN],
         session' = [session EXCEPT ![a] = s],
         SessionInv(a)', recorded' \in Nat,
         recorded' + Pending(a)' <= recorded + Pending(a),
         MonthlyLimit # 0
  PROVE  BudgetInv'
<1> DEFINE f == [b \in Agent |-> Pending(b)]
           g == [b \in Agent |-> Pending(b)']
<1>1. /\ session' \in [Agent -> [cost : Nat, calls : Nat, open : BOOLEAN]]
      /\ \A b \in Agent : b # a => session'[b] = session[b]
  BY DEF BudgetInv
<1>2. \A b \in Agent : b # a => Pending(b)' = Pending(b)
  BY <1>1 DEF Pending
<1>3. \A b \in Agent : SessionInv(b)'
  BY <1>1, <1>2 DEF BudgetInv, SessionInv
<1>4. \A b \in Agent : f[b] \in Int /\ g[b] \in Int
  BY <1>1, BudgetConstants DEF BudgetInv, Pending
<1>5. f[a] = Pending(a) /\ g[a] = Pending(a)' /\ \A b \in Agent : b # a => f[b] = g[b]
  BY <1>2
<1>6. AllPending = SumFunctionOnSet(f, Agent) /\ AllPending' = SumFunctionOnSet(g, Agent)
  BY DEF AllPending
<1> HIDE DEF f, g
<1>7. /\ SumFunctionOnSet(g, Agent) = SumFunctionOnSet(f, Agent) + g[a] - f[a]
      /\ SumFunctionOnSet(f, Agent) \in Int
  BY <1>4, <1>5, BudgetConstants, SumChange, SumInt
<1>8. recorded' + AllPending' <= recorded + AllPending
  BY <1>4, <1>5, <1>6, <1>7 DEF BudgetInv
<1>9. AllCalls \in Nat /\ MaxCost * AllCalls \in Nat /\ MonthlyLimit \in Nat
  BY BudgetConstants
<1>10. AllPending \in Int /\ AllPending' \in Int
  BY <1>4, <1>6, <1>7
<1>11. recorded \in Nat /\ recorded + AllPending <= MonthlyLimit - 1 + MaxCost * AllCalls
  BY DEF BudgetInv
<1>12. recorded' + AllPending' <= MonthlyLimit - 1 + MaxCost * AllCalls
  <2> PICK most : most = MonthlyLimit - 1 + MaxCost * AllCalls
    OBVIOUS
  <2>1. most \in Int
    BY <1>9
  <2>2. recorded' + AllPending' <= most
    <3> PICK x, y : x = recorded + AllPending /\ y = recorded' + AllPending'
      OBVIOUS
    <3>1. x \in Int /\ y \in Int
      BY <1>10, <1>11
    <3>2. y <= x
      BY <1>8
    <3>3. x <= most
      BY <1>11
    <3> QED BY ONLY <2>1, <3>1, <3>2, <3>3, y = recorded' + AllPending'
  <2> QED BY <2>2
<1>13. AllCalls' = AllCalls
  BY DEF AllCalls
<1> QED BY <1>1, <1>3, <1>12, <1>13 DEF BudgetInv

LEMMA AuthorizeKeeps ==
  ASSUME BudgetInv, NEW a \in Agent, Authorize(a)
  PROVE  BudgetInv'
<1> PICK s : s = session[a]
  OBVIOUS
<1>1. /\ s \in [cost : Nat, calls : Nat, open : BOOLEAN] /\ SessionInv(a)
      /\ recorded \in Nat
  BY DEF BudgetInv
<1>2. /\ session' \in [Agent -> [cost : Nat, calls : Nat, open : BOOLEAN]]
      /\ \A b \in Agent : b # a => session'[b] = session[b]
      /\ session'[a] = [cost |-> s.cost, calls |-> s.calls + 1, open |-> TRUE]
  BY <1>1 DEF BudgetInv, Authorize
<1>3. MonthlyLimit # 0 /\ recorded <= MonthlyLimit - 1
  BY <1>1, BudgetConstants DEF Authorize, LimitReached
<1>4. SessionInv(a)'
  <2>1. MaxCost \in Nat /\ CallsOf(a) \in Nat /\ CallsOf(a)' = CallsOf(a)
    BY BudgetConstants DEF CallsOf
  <2>2. ~ s.open /\ s.calls < CallsOf(a) /\ s.cost <= MaxCost * s.calls
    BY <1>1 DEF Authorize, SessionInv, Pending, CallsOf
  <2>3. /\ MaxCost * s.calls \in Nat
        /\ MaxCost * (s.calls + 1) = MaxCost * s.calls + MaxCost
    BY <1>1, Times
  <2>4. Pending(a)' = s.cost + MaxCost
    BY <1>2 DEF Pending
  <2>5. Pending(a)' <= MaxCost * (s.calls + 1)
    BY <1>1, <2>1, <2>2, <2>3, <2>4
  <2> QED BY <1>1, <1>2, <2>1, <2>2, <2>5 DEF SessionInv
<1>5. \A b \in Agent : SessionInv(b)'
  <2>1. ASSUME NEW b \in Agent, b # a PROVE SessionInv(b)'
    BY <1>2, <2>1 DEF BudgetInv, SessionInv, Pending, CallsOf
  <2> QED BY <1>4, <2>1
<1>6. AllPending' \in 0 .. MaxCost * AllCalls
  <2> DEFINE f == [b \in Agent |-> Pending(b)']
  <2>1. ASSUME NEW b \in Agent
        PROVE  /\ f[b] \in Nat /\ f[b] <= MaxCost * session'[b].calls
               /\ session'[b].calls <= CallsOf(b)
    BY <1>2, <1>5, BudgetConstants DEF SessionInv, Pending, CallsOf
  <2>2. AllPending' = SumFunctionOnSet(f, Agent)
    BY DEF AllPending
  <2> HIDE DEF f
  <2> QED BY <1>2, <2>1, <2>2, PendingIsBounded
<1>7. AllCalls' = AllCalls /\ AllCalls \in Nat /\ MaxCost * AllCalls \in Nat /\ MonthlyLimit \in Nat
  BY BudgetConstants DEF AllCalls
<1>8. recorded' = recorded
  BY DEF Authorize
<1> QED BY <1>1, <1>2, <1>3, <1>5, <1>6, <1>7, <1>8 DEF BudgetInv

\* A call is recorded, with at most MaxCost; only a call that was authorised.
LEMMA RecordKeeps ==
  ASSUME BudgetInv, NEW a \in Agent, RecordCall(a)
  PROVE  BudgetInv'
<1> PICK s : s = session[a]
  OBVIOUS
<1>1. PICK cost \in 0 .. MaxCost :
        session' = [session EXCEPT ![a].open = FALSE, ![a].cost = @ + cost]
  BY DEF RecordCall
<1> PICK r : r = session'[a]
  OBVIOUS
<1>2. /\ s \in [cost : Nat, calls : Nat, open : BOOLEAN] /\ SessionInv(a)
      /\ recorded \in Nat /\ MaxCost \in Nat
      /\ s.open /\ recorded' = recorded
  BY BudgetConstants DEF BudgetInv, RecordCall
<1>3. /\ session' = [session EXCEPT ![a] = r] /\ session'[a] = r
      /\ r.cost = s.cost + cost /\ r.calls = s.calls /\ ~ r.open
      /\ r \in [cost : Nat, calls : Nat, open : BOOLEAN]
  <2>1. r = [s EXCEPT !.open = FALSE, !.cost = @ + cost]
    BY <1>1 DEF BudgetInv
  <2>2. r \in [cost : Nat, calls : Nat, open : BOOLEAN]
    <3> DEFINE o == [s EXCEPT !.open = FALSE]
    <3>1. o \in [cost : Nat, calls : Nat, open : BOOLEAN] /\ o.cost = s.cost
      BY <1>2
    <3>2. r = [o EXCEPT !.cost = o.cost + cost] /\ o.cost + cost \in Nat
      BY <1>2, <2>1
    <3> HIDE DEF o
    <3> QED BY <3>1, <3>2
  <2>3. r.cost = s.cost + cost /\ r.calls = s.calls /\ ~ r.open
    BY <1>2, <2>1
  <2>4. session' = [session EXCEPT ![a] = r]
    BY <1>1 DEF BudgetInv
  <2> QED BY <2>2, <2>3, <2>4
<1>4. MonthlyLimit # 0
  BY <1>2 DEF BudgetInv, Closed
<1>5. Pending(a) = s.cost + MaxCost /\ Pending(a)' = s.cost + cost
  BY <1>2, <1>3 DEF Pending
<1>6. SessionInv(a)'
  <2>1. /\ CallsOf(a)' = CallsOf(a) /\ s.calls \in 0 .. CallsOf(a) /\ s.calls > 0
        /\ s.cost + MaxCost <= MaxCost * s.calls
    BY <1>2, <1>5 DEF SessionInv, CallsOf
  <2>2. MaxCost * s.calls \in Nat
    BY <1>2, Times
  <2> QED BY <1>2, <1>3, <1>5, <2>1, <2>2 DEF SessionInv
<1>7. recorded' + Pending(a)' <= recorded + Pending(a)
  BY <1>2, <1>5
<1> QED BY <1>2, <1>3, <1>4, <1>6, <1>7, BudgetMoves

\* The costs of a transaction are recorded when it commits, or lost.
LEMMA CloseKeeps ==
  ASSUME BudgetInv, NEW a \in Agent, CommitCalls(a) \/ RollBackCalls(a)
  PROVE  BudgetInv'
<1> PICK s : s = session[a]
  OBVIOUS
<1>1. /\ s \in [cost : Nat, calls : Nat, open : BOOLEAN]
      /\ recorded \in Nat /\ MaxCost \in Nat
      /\ s.calls > 0 /\ session' = [session EXCEPT ![a] = Closed]
      /\ recorded' = recorded \/ (~ s.open /\ recorded' = recorded + s.cost)
  BY BudgetConstants DEF BudgetInv, CommitCalls, RollBackCalls
<1>2. session'[a] = Closed
  BY <1>1 DEF BudgetInv
<1>3. MonthlyLimit # 0
  BY <1>1 DEF BudgetInv, Closed
<1>4. SessionInv(a)' /\ Pending(a)' = 0
  <2>1. /\ CallsOf(a) \in Nat /\ MaxCost * 0 \in Nat /\ MaxCost * 0 = 0
        /\ CallsOf(a)' = CallsOf(a)
    BY BudgetConstants DEF CallsOf
  <2> QED BY <1>1, <1>2, <2>1 DEF SessionInv, Pending, Closed
<1>5. Pending(a) \in Nat /\ (~ s.open => Pending(a) = s.cost)
  BY <1>1 DEF Pending
<1>6. recorded' \in Nat /\ recorded' + Pending(a)' <= recorded + Pending(a)
  BY <1>1, <1>4, <1>5
<1>7. Closed \in [cost : Nat, calls : Nat, open : BOOLEAN]
  BY DEF Closed
<1> QED BY <1>1, <1>3, <1>4, <1>6, <1>7, BudgetMoves

LEMMA BudgetKeeps == BudgetInv /\ [BudgetNext]_budgetVars => BudgetInv'
<1> SUFFICES ASSUME BudgetInv, [BudgetNext]_budgetVars PROVE BudgetInv'
  OBVIOUS
<1>1. CASE UNCHANGED budgetVars
  BY <1>1 DEF budgetVars, BudgetInv, SessionInv, AllPending, Pending, CallsOf, AllCalls
<1> QED BY <1>1, AuthorizeKeeps, RecordKeeps, CloseKeeps DEF BudgetNext

\* However many transactions spend at the same time without seeing each other's
\* costs, the recorded costs exceed the monthly limit by at most one round of
\* their calls, and a limit of nothing not at all.
THEOREM OverrunStaysBounded == BudgetSpec => []OverrunIsBounded
<1>1. BudgetInv => OverrunIsBounded
  <2> SUFFICES ASSUME BudgetInv PROVE OverrunIsBounded
    OBVIOUS
  <2>1. AllPending \in 0 .. MaxCost * AllCalls
    <3>1. \A a \in Agent :
            /\ Pending(a) \in Nat /\ Pending(a) <= MaxCost * session[a].calls
            /\ session[a].calls <= CallsOf(a)
      BY BudgetConstants DEF BudgetInv, SessionInv, Pending
    <3> QED BY <3>1, PendingIsBounded DEF AllPending, BudgetInv
  <2>2. recorded \in Nat /\ MonthlyLimit \in Nat /\ MaxCost * AllCalls \in Nat
    BY BudgetConstants DEF BudgetInv
  <2> QED BY <2>1, <2>2 DEF BudgetInv, OverrunIsBounded
<1> QED BY <1>1, InitBudget, BudgetKeeps, PTL DEF BudgetSpec

(***************************************************************************)
(* RequestGate: how many requests a window of time admits.                 *)
(***************************************************************************)

\* Times in order, none of them in the future; no more than Limit of them in a
\* window.
InOrder(times, now) ==
  /\ \A i \in 1 .. Len(times) : times[i] <= now
  /\ \A i, j \in 1 .. Len(times) : i <= j => times[i] <= times[j]
Spaced(times) ==
  \A i \in 1 .. Len(times) - Limit : times[i + Limit] - times[i] >= Window

\* A sequence holds all times but the first n, which are not after c.
Holds(b, times, n) ==
  /\ n \in 0 .. Len(times) /\ Len(b) = Len(times) - n
  /\ \A i \in 1 .. Len(b) : b[i] = times[i + n]
Old(times, n, c) == \A i \in 1 .. n : times[i] <= c

\* Exactly the first n times are not after c; the first that is comes next.
Splits(times, n, c) ==
  n \in 0 .. Len(times) /\ \A i \in 1 .. Len(times) : i > n <=> times[i] > c
Stops(b, e, c) == e \in 0 .. Len(b) /\ StopsAt(b, e, c)

KeyInv(k) ==
  /\ InOrder(admitted[k], clock) /\ Spaced(admitted[k])
  /\ \E n : Holds(buckets[k], admitted[k], n) /\ Old(admitted[k], n, clock - Window)
GateInv ==
  /\ clock \in Nat
  /\ buckets \in [Key -> Seq(Nat)] /\ admitted \in [Key -> Seq(Nat)]
  /\ \A k \in Key : KeyInv(k)

\* A bucket has a first request that is not expired, or all of them are.
LEMMA FirstUnexpired ==
  ASSUME NEW b \in Seq(Nat), NEW c \in Int
  PROVE  \E e : Stops(b, e, c)
<1> PICK l : l = Len(b)
  OBVIOUS
<1> DEFINE Ends(n) == n < l => b[n + 1] > c
           Bad == {1 .. n : n \in {m \in 0 .. l : Ends(m)}}
<1>1. l \in Nat /\ \A i \in 1 .. l : b[i] \in Nat
  BY ElementOfSeq, LenProperties
<1>2. IsFiniteSet(1 .. l) /\ Bad \in SUBSET SUBSET (1 .. l) /\ Bad # {}
  <2>1. IsFiniteSet(1 .. l)
    BY <1>1, FS_Interval
  <2>2. \A n \in 0 .. l : 1 .. n \in SUBSET (1 .. l)
    BY <1>1
  <2>3. Ends(l) /\ l \in 0 .. l
    BY <1>1
  <2>4. 1 .. l \in Bad
    BY <2>3
  <2> QED BY <2>1, <2>2, <2>4
<1>3. PICK T \in Bad : \A U \in SUBSET T : U # T => U \notin Bad
  <2> HIDE DEF Bad
  <2> QED BY <1>2, LeastSubset
<1>4. PICK n \in 0 .. l : T = 1 .. n /\ Ends(n)
  OBVIOUS
<1>5. ASSUME NEW i \in 1 .. n PROVE b[i] <= c
  <2> DEFINE m == i - 1
  <2>1. m \in 0 .. l /\ m < n
    BY <1>1
  <2>2. 1 .. m \in SUBSET (1 .. n)
    BY <1>1
  <2>3. n \in 1 .. n /\ n \notin 1 .. m
    BY <1>1
  <2>4. 1 .. m \notin Bad
    BY <1>3, <1>4, <2>2, <2>3
  <2>5. ~ Ends(m)
    BY <2>1, <2>4
  <2> QED BY <1>1, <2>1, <2>5
<1>6. Stops(b, n, c)
  BY <1>4, <1>5 DEF Stops, StopsAt
<1> QED BY <1>6

\* What is left of a bucket without its first e requests.
LEMMA RestOf ==
  ASSUME NEW s \in Seq(Nat), NEW n \in 0 .. Len(s),
         NEW r, r = SubSeq(s, n + 1, Len(s))
  PROVE  r \in Seq(Nat) /\ Holds(r, s, n)
<1> PICK l : l = Len(s)
  OBVIOUS
<1>1. l \in Nat /\ n \in 0 .. l
  BY LenProperties
<1>2. \A i \in n + 1 .. l : s[i] \in Nat
  <2> TAKE i \in n + 1 .. l
  <2>1. i \in 1 .. l
    BY <1>1
  <2> QED BY <2>1, ElementOfSeq
<1>3. /\ r \in Seq(Nat)
      /\ Len(r) = IF n + 1 <= l THEN l - (n + 1) + 1 ELSE 0
      /\ \A i \in 1 .. l - (n + 1) + 1 : r[i] = s[n + 1 + i - 1]
  BY <1>1, <1>2, SubSeqProperties
<1>4. Len(r) = l - n
  BY <1>1, <1>3
<1>5. ASSUME NEW i \in 1 .. l - n PROVE r[i] = s[i + n]
  <2>1. i \in 1 .. l - (n + 1) + 1 /\ n + 1 + i - 1 = i + n
    BY <1>1
  <2> QED BY <1>3, <2>1
<1> QED BY <1>3, <1>4, <1>5 DEF Holds

\* Without what is expired, a bucket holds exactly what is in the window.
LEMMA RestHolds ==
  ASSUME NEW times \in Seq(Nat), NEW b \in Seq(Nat), NEW now, NEW c \in Int,
         NEW n, NEW e, NEW r \in Seq(Nat),
         InOrder(times, now), Holds(b, times, n), Old(times, n, c),
         Stops(b, e, c), Holds(r, b, e)
  PROVE  Holds(r, times, n + e) /\ Splits(times, n + e, c)
<1> PICK lt, lb, m : lt = Len(times) /\ lb = Len(b) /\ m = n + e
  OBVIOUS
<1>1. /\ lt \in Nat /\ lb \in Nat /\ lb = lt - n /\ n \in 0 .. lt /\ e \in 0 .. lb
      /\ Len(r) = lb - e
  BY LenProperties DEF Holds
<1>2. m \in 0 .. lt /\ m \in n .. lt /\ n \in Int /\ e \in Int /\ lb - e = lt - m
  BY ONLY <1>1, m = n + e
<1>3. ASSUME NEW i \in 1 .. lb - e PROVE r[i] = times[i + m]
  <2>1. i + e \in 1 .. lb /\ (i + e) + n = i + m
    BY ONLY <1>1, <1>2, m = n + e
  <2>2. b[i + e] = times[(i + e) + n]
    BY <2>1 DEF Holds
  <2>3. r[i] = b[i + e]
    BY <1>1 DEF Holds
  <2> QED BY <2>1, <2>2, <2>3
<1>4. ASSUME NEW i \in 1 .. lt PROVE i > m <=> times[i] > c
  <2>0. i \in Int /\ times[i] \in Nat
    BY ElementOfSeq
  <2>1. CASE i <= n
    <3>1. i \in 1 .. n /\ ~ (i > m)
      BY ONLY <1>1, <1>2, <2>0, <2>1, i \in 1 .. lt
    <3>2. times[i] <= c
      BY <3>1 DEF Old
    <3> QED BY ONLY <2>0, <3>1, <3>2, c \in Int
  <2>2. CASE i > n /\ i <= m
    <3>1. i - n \in 1 .. e /\ i - n \in 1 .. lb /\ (i - n) + n = i /\ ~ (i > m)
      BY ONLY <1>1, <1>2, <2>2, i \in 1 .. lt, m = n + e
    <3>2. b[i - n] <= c /\ b[i - n] = times[(i - n) + n]
      BY <3>1 DEF Stops, StopsAt, Holds
    <3>3. times[i] <= c
      BY <3>1, <3>2
    <3> QED BY ONLY <2>0, <3>1, <3>3, c \in Int
  <2>3. CASE i > m
    <3>1. /\ e + 1 \in 1 .. lb /\ e < lb /\ (e + 1) + n = m + 1
          /\ m + 1 \in 1 .. lt /\ m + 1 <= i
      BY ONLY <1>1, <1>2, <2>3, i \in 1 .. lt, m = n + e
    <3>2. b[e + 1] > c /\ b[e + 1] = times[m + 1]
      BY <3>1 DEF Stops, StopsAt, Holds
    <3>3. times[m + 1] <= times[i] /\ times[m + 1] \in Nat
      BY <3>1, ElementOfSeq DEF InOrder
    <3>4. times[i] > c
      <4> PICK x, y : x = times[m + 1] /\ y = times[i]
        OBVIOUS
      <4>1. x \in Nat /\ y \in Nat /\ x > c /\ x <= y
        BY ONLY <2>0, <3>2, <3>3, x = times[m + 1] /\ y = times[i]
      <4> QED BY ONLY <4>1, c \in Int, y = times[i]
    <3> QED BY ONLY <2>3, <3>4
  <2>4. i <= n \/ (i > n /\ i <= m) \/ i > m
    BY ONLY <1>1, <1>2, <2>0
  <2> QED BY ONLY <2>1, <2>2, <2>3, <2>4
<1>5. Holds(r, times, m)
  BY ONLY <1>1, <1>2, <1>3, lt = Len(times) DEF Holds
<1>6. Splits(times, m, c)
  BY ONLY <1>2, <1>4, lt = Len(times) DEF Splits
<1> QED BY ONLY <1>5, <1>6, m = n + e

\* The requests in the window are the last ones that were let through.
LEMMA RecentHolds ==
  ASSUME GateInv, NEW k \in Key
  PROVE  /\ Recent(k) \in Seq(Nat)
         /\ \E m : /\ Holds(Recent(k), admitted[k], m)
                   /\ Splits(admitted[k], m, clock - Window)
<1> PICK times, b, c, e, r : /\ times = admitted[k] /\ b = buckets[k]
                             /\ c = clock - Window
                             /\ e = Expired(b, c) /\ r = Recent(k)
  OBVIOUS
<1>1. b \in Seq(Nat) /\ times \in Seq(Nat) /\ c \in Int
  BY GateAssumption DEF GateInv
<1>2. Stops(b, e, c)
  <2>1. \E n : Stops(b, n, c)
    BY <1>1, FirstUnexpired
  <2>2. \E n \in 0 .. Len(b) : StopsAt(b, n, c)
    BY <2>1 DEF Stops
  <2> QED BY <2>2 DEF Expired, Stops
<1>3. InOrder(times, clock) /\ \E n : Holds(b, times, n) /\ Old(times, n, c)
  BY DEF GateInv, KeyInv
<1>4. PICK n : Holds(b, times, n) /\ Old(times, n, c)
  BY <1>3
<1>5. r \in Seq(Nat) /\ Holds(r, b, e)
  <2>1. r = SubSeq(b, e + 1, Len(b)) /\ e \in 0 .. Len(b)
    BY <1>2 DEF Recent, Stops
  <2> QED BY <1>1, <2>1, RestOf
<1>6. Holds(r, times, n + e) /\ Splits(times, n + e, c)
  BY <1>1, <1>2, <1>3, <1>4, <1>5, RestHolds
<1> QED BY <1>5, <1>6

\* One more request keeps its distance to the one that came Limit before it.
LEMMA OneMore ==
  ASSUME NEW times \in Seq(Nat), NEW now \in Nat, NEW n, NEW r,
         InOrder(times, now), Spaced(times), Holds(r, times, n), Len(r) < Limit,
         Old(times, n, now - Window),
         NEW more, more = Append(times, now)
  PROVE  more \in Seq(Nat) /\ InOrder(more, now) /\ Spaced(more)
<1> PICK l, c : l = Len(times) /\ c = now - Window
  OBVIOUS
<1>1. /\ l \in Nat /\ Limit \in Nat \ {0} /\ Window \in Nat
      /\ n \in 0 .. l /\ l - n < Limit
  BY LenProperties, GateAssumption DEF Holds
<1>2. /\ more \in Seq(Nat) /\ Len(more) = l + 1 /\ more[l + 1] = now
      /\ \A i \in 1 .. l : more[i] = times[i]
  BY AppendProperties
<1>3. \A i \in 1 .. l + 1 : i \in 1 .. l \/ i = l + 1
  BY <1>1
<1>4. ASSUME NEW i \in 1 .. l + 1 PROVE more[i] <= now
  BY <1>2, <1>3 DEF InOrder
<1>5. ASSUME NEW i \in 1 .. l + 1, NEW j \in 1 .. l + 1, i <= j
      PROVE  more[i] <= more[j]
  <2>1. CASE j = l + 1
    BY <1>2, <1>4, <2>1
  <2>2. CASE j \in 1 .. l
    <3>1. i \in 1 .. l
      BY ONLY <1>1, <1>5, <2>2, i \in 1 .. l + 1
    <3> QED BY <1>2, <1>5, <2>2, <3>1 DEF InOrder
  <2> QED BY <1>3, <2>1, <2>2
<1>6. ASSUME NEW i \in 1 .. l + 1 - Limit
      PROVE  more[i + Limit] - more[i] >= Window
  <2>1. CASE i + Limit = l + 1
    <3>1. i \in 1 .. n /\ i \in 1 .. l
      BY ONLY <1>1, <2>1, i \in 1 .. l + 1 - Limit
    <3>2. more[i] = times[i] /\ times[i] <= c /\ times[i] \in Nat
      BY <1>2, <3>1, ElementOfSeq DEF Old
    <3> QED BY SMTT(30), <1>1, <1>2, <2>1, <3>2
  <2>2. CASE i + Limit # l + 1
    <3>1. i \in 1 .. l - Limit /\ i \in 1 .. l /\ i + Limit \in 1 .. l
      BY ONLY <1>1, <2>2, i \in 1 .. l + 1 - Limit
    <3> QED BY <1>2, <3>1 DEF Spaced
  <2> QED BY <2>1, <2>2
<1>7. InOrder(more, now)
  BY ONLY <1>2, <1>4, <1>5 DEF InOrder
<1>8. Spaced(more)
  <2> SUFFICES ASSUME NEW i \in 1 .. Len(more) - Limit
               PROVE  more[i + Limit] - more[i] >= Window
    BY DEF Spaced
  <2>1. i \in 1 .. l + 1 - Limit
    BY ONLY <1>1, <1>2, i \in 1 .. Len(more) - Limit
  <2> QED BY <1>6, <2>1
<1> QED BY <1>2, <1>7, <1>8

\* A request that is let through lengthens what its bucket holds.
LEMMA OneMoreHeld ==
  ASSUME NEW times \in Seq(Nat), NEW r \in Seq(Nat), NEW now \in Nat, NEW n, NEW c,
         Holds(r, times, n), Old(times, n, c),
         NEW more, more = Append(times, now), NEW held, held = Append(r, now)
  PROVE  held \in Seq(Nat) /\ Holds(held, more, n) /\ Old(more, n, c)
<1> PICK l, h : l = Len(times) /\ h = Len(r)
  OBVIOUS
<1>1. l \in Nat /\ h \in Nat /\ n \in 0 .. l /\ h = l - n
  BY LenProperties DEF Holds
<1>2. /\ more \in Seq(Nat) /\ Len(more) = l + 1 /\ more[l + 1] = now
      /\ \A i \in 1 .. l : more[i] = times[i]
  BY AppendProperties
<1>3. /\ held \in Seq(Nat) /\ Len(held) = h + 1 /\ held[h + 1] = now
      /\ \A i \in 1 .. h : held[i] = r[i]
  BY AppendProperties
<1>4. n \in 0 .. l + 1 /\ h + 1 = l + 1 - n /\ \A i \in 1 .. n : i \in 1 .. l
  BY ONLY <1>1
<1>5. ASSUME NEW i \in 1 .. h + 1 PROVE held[i] = more[i + n]
  <2>1. CASE i = h + 1
    <3>1. i + n = l + 1
      BY ONLY <1>1, <2>1
    <3> QED BY <1>2, <1>3, <2>1, <3>1
  <2>2. CASE i # h + 1
    <3>1. i \in 1 .. h /\ i + n \in 1 .. l
      BY ONLY <1>1, <2>2, i \in 1 .. h + 1
    <3> QED BY <1>2, <1>3, <3>1 DEF Holds
  <2> QED BY <2>1, <2>2
<1>6. Holds(held, more, n)
  <2>1. n \in 0 .. Len(more) /\ Len(held) = Len(more) - n
    BY ONLY <1>1, <1>2, <1>3, <1>4
  <2>2. \A i \in 1 .. Len(held) : held[i] = more[i + n]
    BY ONLY <1>3, <1>5
  <2> QED BY ONLY <2>1, <2>2 DEF Holds
<1>7. Old(more, n, c)
  BY <1>2, <1>4 DEF Old
<1> QED BY <1>3, <1>6, <1>7

LEMMA DispatchKeeps ==
  ASSUME GateInv, NEW identity \in Identity \cup {NoIdentity},
         NEW host \in Host \cup {NoHost}, NEW kind,
         Dispatch(identity, host, kind)
  PROVE  GateInv'
<1> PICK k : k = KeyOf(identity, host)
  OBVIOUS
<1>1. k \in Key
  BY DEF KeyOf, Key
<1> PICK times, r, c : /\ times = admitted[k] /\ r = Recent(k)
                       /\ c = clock - Window
  OBVIOUS
<1>2. /\ times \in Seq(Nat) /\ r \in Seq(Nat) /\ Len(r) \in Nat
      /\ clock \in Nat /\ clock' = clock /\ Limit \in Nat /\ c \in Int
      /\ InOrder(times, clock) /\ Spaced(times)
  BY <1>1, RecentHolds, GateAssumption, LenProperties DEF GateInv, KeyInv, Dispatch
<1>3. PICK n : Holds(r, times, n) /\ Splits(times, n, c)
  BY <1>1, RecentHolds
<1>4. Old(times, n, c)
  <2> SUFFICES ASSUME NEW i \in 1 .. n PROVE times[i] <= c
    BY DEF Old
  <2>1. i \in 1 .. Len(times) /\ ~ (i > n)
    <3>1. n \in 0 .. Len(times) /\ Len(times) \in Nat
      BY <1>2, <1>3, LenProperties DEF Splits
    <3> QED BY ONLY <3>1, i \in 1 .. n
  <2>2. times[i] \in Nat /\ ~ (times[i] > c)
    BY <1>2, <1>3, <2>1, ElementOfSeq DEF Splits
  <2> QED BY ONLY <1>2, <2>2
<1>5. ASSUME NEW j \in Key, j # k,
             buckets'[j] = buckets[j], admitted'[j] = admitted[j]
      PROVE  KeyInv(j)'
  BY <1>2, <1>5 DEF GateInv, KeyInv
<1>6. CASE Full(k)
  <2>1. buckets' = [buckets EXCEPT ![k] = r] /\ admitted' = admitted
    BY <1>6 DEF Dispatch
  <2>2. /\ buckets' \in [Key -> Seq(Nat)] /\ buckets'[k] = r
        /\ \A j \in Key : j # k => buckets'[j] = buckets[j]
    BY <1>1, <1>2, <2>1 DEF GateInv
  <2>3. KeyInv(k)'
    BY <1>2, <1>3, <1>4, <2>1, <2>2 DEF KeyInv
  <2> QED BY <1>2, <1>5, <2>1, <2>2, <2>3 DEF GateInv
<1>7. CASE ~ Full(k)
  <2> PICK more, held : more = Append(times, clock) /\ held = Append(r, clock)
    OBVIOUS
  <2>1. /\ buckets' = [buckets EXCEPT ![k] = held]
        /\ admitted' = [admitted EXCEPT ![k] = more]
    BY <1>1, <1>7 DEF Dispatch, GateInv
  <2>2. Len(r) < Limit
    BY <1>2, <1>7 DEF Full
  <2>3. more \in Seq(Nat) /\ InOrder(more, clock) /\ Spaced(more)
    BY <1>2, <1>3, <1>4, <2>2, OneMore
  <2>4. held \in Seq(Nat) /\ Holds(held, more, n) /\ Old(more, n, c)
    BY ONLY <1>2, <1>3, <1>4, OneMoreHeld,
            more = Append(times, clock) /\ held = Append(r, clock)
  <2>5. /\ buckets' \in [Key -> Seq(Nat)] /\ buckets'[k] = held
        /\ admitted' \in [Key -> Seq(Nat)] /\ admitted'[k] = more
        /\ \A j \in Key : j # k => buckets'[j] = buckets[j] /\ admitted'[j] = admitted[j]
    BY <1>1, <2>1, <2>3, <2>4 DEF GateInv
  <2>6. KeyInv(k)'
    BY <1>2, <2>3, <2>4, <2>5 DEF KeyInv
  <2> QED BY <1>2, <1>5, <2>5, <2>6 DEF GateInv
<1> QED BY <1>6, <1>7

LEMMA TickKeeps ==
  ASSUME GateInv, clock' = clock + 1, UNCHANGED <<buckets, admitted>>
  PROVE  GateInv'
<1>1. ASSUME NEW k \in Key PROVE KeyInv(k)'
  <2> PICK times : times = admitted[k]
    OBVIOUS
  <2>1. /\ clock \in Nat /\ Window \in Nat /\ times \in Seq(Nat)
        /\ InOrder(times, clock) /\ Spaced(times)
    BY GateAssumption DEF GateInv, KeyInv
  <2>2. Len(times) \in Nat /\ \A i \in 1 .. Len(times) : times[i] \in Nat
    BY <2>1, ElementOfSeq, LenProperties
  <2>3. PICK n : Holds(buckets[k], times, n) /\ Old(times, n, clock - Window)
    BY DEF GateInv, KeyInv
  <2>4. InOrder(times, clock + 1)
    BY <2>1, <2>2 DEF InOrder
  <2>5. Old(times, n, (clock + 1) - Window)
    <3> SUFFICES ASSUME NEW i \in 1 .. n PROVE times[i] <= (clock + 1) - Window
      BY DEF Old
    <3>1. n \in 0 .. Len(times)
      BY <2>3 DEF Holds
    <3>2. i \in 1 .. Len(times)
      BY ONLY <2>2, <3>1, i \in 1 .. n
    <3>3. times[i] \in Nat /\ times[i] <= clock - Window
      BY <2>2, <2>3, <3>2 DEF Old
    <3> QED BY ONLY <2>1, <3>3
  <2> QED BY <2>1, <2>3, <2>4, <2>5 DEF KeyInv
<1> QED BY <1>1 DEF GateInv

LEMMA GateKeeps == GateInv /\ [GateNext]_gateVars => GateInv'
<1> SUFFICES ASSUME GateInv, [GateNext]_gateVars PROVE GateInv'
  OBVIOUS
<1>1. CASE UNCHANGED gateVars
  BY <1>1 DEF gateVars, GateInv, KeyInv
<1>2. CASE Tick
  BY <1>2, TickKeeps DEF Tick
<1> QED BY <1>1, <1>2, DispatchKeeps DEF GateNext

LEMMA InitGate == GateInit => GateInv
<1> SUFFICES ASSUME GateInit PROVE GateInv
  OBVIOUS
<1>1. << >> \in Seq(Nat) /\ Len(<< >>) = 0
  BY EmptySeq
<1>2. \A k \in Key : buckets[k] = << >> /\ admitted[k] = << >>
  BY DEF GateInit
<1>3. InOrder(<< >>, clock) /\ Spaced(<< >>)
  BY <1>1, GateAssumption DEF InOrder, Spaced
<1>4. Holds(<< >>, << >>, 0) /\ Old(<< >>, 0, clock - Window)
  BY <1>1 DEF Holds, Old
<1> QED BY <1>1, <1>2, <1>3, <1>4 DEF GateInit, GateInv, KeyInv

\* However the requests of a key are spaced, no more than Limit of them are let
\* through in any Window seconds, and its bucket accounts for exactly these.
THEOREM WindowAlwaysHolds == GateSpec => []WindowHolds
<1>1. GateInv => WindowHolds
  <2> SUFFICES ASSUME GateInv PROVE WindowHolds
    OBVIOUS
  <2>1. ASSUME NEW k \in Key, NEW times, times = admitted[k]
        PROVE  /\ \A i \in 1 .. Len(times) - Limit : times[i + Limit] - times[i] >= Window
               /\ \E n \in 0 .. Len(times) :
                    /\ Recent(k) = SubSeq(times, n + 1, Len(times))
                    /\ \A i \in 1 .. Len(times) : i > n <=> times[i] > clock - Window
    <3>1. times \in Seq(Nat) /\ Spaced(times)
      BY <2>1 DEF GateInv, KeyInv
    <3>2. PICK n : Holds(Recent(k), times, n) /\ Splits(times, n, clock - Window)
      BY <2>1, RecentHolds
    <3> PICK rest : rest = SubSeq(times, n + 1, Len(times))
      OBVIOUS
    <3>3. n \in 0 .. Len(times) /\ Recent(k) \in Seq(Nat)
      BY <3>2, RecentHolds DEF Splits
    <3>4. rest \in Seq(Nat) /\ Holds(rest, times, n)
      BY <3>1, <3>3, RestOf
    <3>5. /\ Len(rest) = Len(Recent(k))
          /\ \A i \in 1 .. Len(rest) : rest[i] = Recent(k)[i]
      BY ONLY <3>2, <3>4 DEF Holds
    <3>6. Recent(k) = rest
      BY <3>3, <3>4, <3>5, SeqEqual
    <3> QED BY <3>1, <3>2, <3>3, <3>6 DEF Spaced, Splits
  <2> QED BY <2>1 DEF WindowHolds
<1> QED BY <1>1, InitGate, GateKeeps, PTL DEF GateSpec
=============================================================================
