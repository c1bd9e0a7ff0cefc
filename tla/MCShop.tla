------------------------------- MODULE MCShop -------------------------------
(***************************************************************************)
(* Small instances of what happens before and after a sale.  The eight     *)
(* parts share no state, so that a behaviour is one of them, chosen in its *)
(* initial state, while the others stay as they start.                     *)
(*   ingestion  two callers send two products, with two contents each that *)
(*              share a supplier;                                          *)
(*   pricing    one decision on each of the inputs;                        *)
(*   listings   two deliveries of one SKU, on each marketplace;            *)
(*   service    messages of a conversation, handled by two callers;        *)
(*   returns    three announcements of two returns of one order item, a    *)
(*              fourth of more than was ordered, and two refunds;          *)
(*   budget     two steps of three listing agents and a customer message   *)
(*              call the model;                                            *)
(*   routes     a purchase, an item at its reorder level and one whose      *)
(*              level is zero, with events that are handled at any time;   *)
(*   gate       requests of a known client and of its host.                *)
(***************************************************************************)
EXTENDS Ingestion, Pricing, Listings, CustomerService, Returns, AiBudget,
        RequestGate, Routes, TLC

CONSTANTS c1, c2, p1, p2, da, db, sup, qa, qb, k1, d1, d2, s1,
          h1, h2, m1, m2, m3, calm, risky,
          n1, n2, n3, n4, r1, r2, r3, a1, f1, f2,
          g1, g2, g3, ana, web, b1, i1, i2, e1, e2, e3

MCSupplierOf == da :> sup @@ db :> sup
MCQuoteOf == da :> qa @@ db :> qb

\* Amounts in quarters of a quantum.
MCPriceInput ==
  [landed : {NoAmount, 0, 12, 36}, fees : {0, 8}, minMargin : {NoAmount, 30},
   targetMargin : {NoAmount, 20, 30}, current : {NoAmount, 20, 40, 72},
   least : {NoAmount, 3, 30}, most : {NoAmount, 50}, increment : {NoAmount, 4, 12}]
MCDefaults ==
  [landed |-> 4, minMargin |-> 0, targetMargin |-> 45, least |-> 0,
   most |-> NoAmount, increment |-> 1]

MCSkuOf == d1 :> s1 @@ d2 :> s1

MCReturnOf == n1 :> r1 @@ n2 :> r1 @@ n3 :> r2 @@ n4 :> r3
MCArticleOf == r1 :> a1 @@ r2 :> a1 @@ r3 :> a1
MCOrdered == a1 :> 2
Announcements == Permutations({n1, n2})
MCReturned == r1 :> 1 @@ r2 :> 2 @@ r3 :> 3
MCAmount == f1 :> 5 @@ f2 :> 9

MCLevel == i1 :> 2 @@ i2 :> 0
MCShelfOf == e1 :> i1 @@ e2 :> i1 @@ e3 :> i2

MCRolesOf == ana :> {"operator", "viewer"}

VARIABLE part

catalogueVars == <<ingestionVars, pricingVars, listingVars>>
deskVars == <<serviceVars, returnVars, budgetVars, gateVars, routeVars>>

MCInit ==
  /\ part \in {"ingestion", "pricing", "listings", "service", "returns",
               "budget", "gate", "routes"}
  /\ IngestionInit /\ PricingInit /\ ListingsInit
  /\ ServiceInit /\ ReturnsInit /\ BudgetInit /\ GateInit /\ RoutesInit
  /\ part # "listings" => market = "ebay" /\ connected
  /\ part # "returns" => order.status = "dispatched"
  /\ part # "gate" => authRequired

Catalogue ==
  \/ part = "ingestion" /\ IngestionNext /\ UNCHANGED <<pricingVars, listingVars>>
  \/ part = "pricing" /\ PricingNext /\ UNCHANGED <<ingestionVars, listingVars>>
  \/ part = "listings" /\ ListingsNext /\ UNCHANGED <<ingestionVars, pricingVars>>
Desk ==
  \/ /\ part = "service" /\ ServiceNext
     /\ UNCHANGED <<returnVars, budgetVars, gateVars, routeVars>>
  \/ /\ part = "returns" /\ ReturnsNext
     /\ UNCHANGED <<serviceVars, budgetVars, gateVars, routeVars>>
  \/ /\ part = "budget" /\ BudgetNext
     /\ UNCHANGED <<serviceVars, returnVars, gateVars, routeVars>>
  \/ /\ part = "gate" /\ GateNext
     /\ UNCHANGED <<serviceVars, returnVars, budgetVars, routeVars>>
  \/ /\ part = "routes" /\ RoutesNext
     /\ UNCHANGED <<serviceVars, returnVars, budgetVars, gateVars>>

MCNext == \/ Catalogue /\ UNCHANGED <<part, deskVars>>
          \/ Desk /\ UNCHANGED <<part, catalogueVars>>
MCSpec == MCInit /\ [][MCNext]_<<part, catalogueVars, deskVars>>
=============================================================================
