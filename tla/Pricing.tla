------------------------------- MODULE Pricing -------------------------------
(***************************************************************************)
(* The price calculation and the life of a pricing decision.  A calculated *)
(* price is effective at once, or after the approval of a significant      *)
(* change.                                                                 *)
(*                                                                         *)
(* Amounts are integers of 1/Fine quanta, where a quantum is 0.0001, the   *)
(* last place that is stored; costs and current prices are whole quanta.   *)
(* Margins are percentages.  Quotients are exact; the code rounds them to  *)
(* 28 digits.                                                              *)
(***************************************************************************)
EXTENDS Integers

CONSTANTS
  Decision,    \* pricing_decisions
  PriceInput,  \* requests of POST /pricing-decisions
  Defaults,    \* cost basis of the inventory item and settings, for amounts
               \* that a request does not give
  Fine,        \* parts of a quantum that the inputs tell apart
  Threshold,   \* significant_price_change_percent
  NoDecision,  \* no pricing_decisions row
  NoAmount     \* an optional amount that is not given

\* The fields of a request and of the settings; settings validate theirs.
Optional(S) == S \cup {NoAmount}
ASSUME PricingAssumption ==
  /\ NoAmount \notin Int /\ Fine \in Nat \ {0} /\ Threshold \in Nat \ {0}
  /\ PriceInput \subseteq
       [landed : Optional(Int), fees : Int, minMargin : Optional(Int),
        targetMargin : Optional(Int), current : Optional(Int),
        least : Optional(Int), most : Optional(Int), increment : Optional(Int)]
  /\ Defaults \in
       [landed : Nat, minMargin : 0 .. 99, targetMargin : 0 .. 99,
        least : Nat, most : Optional(Nat \ {0}), increment : Nat \ {0}]

VARIABLES decisions, assent
pricingVars == <<decisions, assent>>

(***************************************************************************)
(* calculate_price                                                         *)
(***************************************************************************)

\* A quotient n / d rounded up, and to the nearest integer, halves to even.
CeilDiv(n, d) == -((-n) \div d)
HalfEven(n, d) ==
  LET q == n \div d
      twice == 2 * (n % d)
  IN IF twice > d \/ (twice = d /\ q % 2 = 1) THEN q + 1 ELSE q

\* _round_up: the increments that cover n / d.
RoundDown(n, d, increment) == (n \div (d * increment)) * increment
RoundUp(n, d, increment) == CeilDiv(n, d * increment) * increment

\* _money
Quantized(amount) == HalfEven(amount, Fine) * Fine

Larger(a, b) == IF a > b THEN a ELSE b
Abs(a) == IF a < 0 THEN -a ELSE a

\* The field constraints of a request.
WellFormed(req) ==
  LET given(f) == req[f] # NoAmount IN
  /\ \A f \in {"landed", "fees", "minMargin", "targetMargin", "least"} :
       given(f) => req[f] >= 0
  /\ \A f \in {"minMargin", "targetMargin"} : given(f) => req[f] < 100
  /\ \A f \in {"current", "most", "increment"} : given(f) => req[f] > 0
  /\ given("minMargin") /\ given("targetMargin") => req.targetMargin >= req.minMargin

\* The command of a request; current_selling_price has no default.
Command(req) ==
  [f \in DOMAIN req |->
     IF req[f] = NoAmount /\ f \in DOMAIN Defaults THEN Defaults[f] ELSE req[f]]

\* _validate finds what the defaults bring with them.
Acceptable(in) ==
  /\ in.minMargin <= in.targetMargin
  /\ in.most # NoAmount => in.most >= in.least

\* The fixed costs over the rest of the margin; fees are those of the
\* marketplace and of the fulfilment.
Cost(in) == in.landed + in.fees
Minimum(in) ==
  Larger(RoundUp(Cost(in) * 100, 100 - in.minMargin, in.increment),
         RoundUp(in.least, 1, in.increment))
Recommended(in) ==
  Larger(RoundUp(Cost(in) * 100, 100 - in.targetMargin, in.increment),
         RoundUp(Minimum(in), 1, in.increment))

\* PricingValidationError, or no price to divide by.
Priceable(in) ==
  /\ Acceptable(in)
  /\ in.most # NoAmount => Recommended(in) <= in.most
  /\ Recommended(in) > 0

\* price_change_percentage, in its last place, a ten-thousandth of a percent.
Places == 10000
Change(in) == HalfEven((Recommended(in) - in.current) * 100 * Places, in.current)

(***************************************************************************)
(* PricingService                                                          *)
(***************************************************************************)

\* SignificantPriceChangeRule
RisesOnly(in) == in.current # NoAmount /\ Change(in) >= Threshold * Places
NeedsApproval(in) ==
  in.current # NoAmount /\ Abs(Change(in)) >= Threshold * Places

PriceRow == [input : {Command(req) : req \in PriceInput}, minimum : Int,
             proposed : Int, policy : {"approval_required", "allowed", "approved"}]
ASSUME NoDecisionAssumption == NoDecision \notin PriceRow

CreateDecision(k, req) ==
  LET in == Command(req) IN
  /\ decisions[k] = NoDecision
  /\ WellFormed(req) /\ Priceable(in)
  /\ decisions' = [decisions EXCEPT ![k] =
       [input |-> in,
        minimum |-> Quantized(Minimum(in)),
        proposed |-> Quantized(Recommended(in)),
        policy |-> IF NeedsApproval(in) THEN "approval_required" ELSE "allowed"]]
  /\ assent' = [assent EXCEPT ![k] =
       IF NeedsApproval(in) THEN "pending" ELSE "none"]

\* approve_price_change checks the stored floor again.
ApprovePrice(k) ==
  /\ assent[k] = "pending"
  /\ decisions[k].policy = "approval_required"
  /\ decisions[k].proposed >= decisions[k].minimum
  /\ decisions' = [decisions EXCEPT ![k].policy = "approved"]
  /\ assent' = [assent EXCEPT ![k] = "approved"]

DeclinePrice(k) ==
  /\ assent[k] = "pending"
  /\ \E a \in {"rejected", "expired"} : assent' = [assent EXCEPT ![k] = a]
  /\ UNCHANGED decisions

(***************************************************************************)
(* The specification                                                       *)
(***************************************************************************)

PricingInit ==
  /\ decisions = [k \in Decision |-> NoDecision]
  /\ assent = [k \in Decision |-> "none"]

PricingNext ==
  \E k \in Decision :
    \/ \E req \in PriceInput : CreateDecision(k, req)
    \/ ApprovePrice(k) \/ DeclinePrice(k)

PricingSpec == PricingInit /\ [][PricingNext]_pricingVars

(***************************************************************************)
(* Properties                                                              *)
(***************************************************************************)

Made == {k \in Decision : decisions[k] # NoDecision}
Effective == {k \in Made : decisions[k].policy \in {"allowed", "approved"}}

\* p is the least multiple of the increment that is a price of at least `least`
\* and leaves margin percent of itself after the costs.
Covers(p, in, margin) ==
  p >= in.least /\ p * (100 - margin) >= Cost(in) * 100
IsLeastPrice(p, in, margin) ==
  /\ p % in.increment = 0
  /\ Covers(p, in, margin)
  /\ ~ (p >= in.increment /\ Covers(p - in.increment, in, margin))

\* "Round both upward to the configured increment; reject a commercial maximum
\* ... rather than weakening that floor": the calculated prices are the least
\* ones that keep the margins, and what is stored of them is less only by the
\* rounding of an increment finer than the stored places.
PricesKeepMargins ==
  \A k \in Made :
    LET d == decisions[k]
        in == d.input
        stored(p, q) == IF in.increment % Fine = 0 THEN p = q
                        ELSE 2 * Abs(p - q) <= Fine /\ p % Fine = 0
    IN /\ IsLeastPrice(Minimum(in), in, in.minMargin)
       /\ IsLeastPrice(Recommended(in), in, in.targetMargin)
       /\ in.most # NoAmount => Recommended(in) <= in.most
       /\ stored(d.minimum, Minimum(in))
       /\ stored(d.proposed, Recommended(in))
       /\ d.minimum <= d.proposed

\* "Make only changes inside the configured safe percentage boundary effective
\* immediately": an effective price without an approval differs from the
\* current one by less than the threshold, before any rounding of the
\* percentage and in either direction.
AutomaticChangesAreSmall ==
  \A k \in Effective :
    LET in == decisions[k].input
    IN \/ assent[k] = "approved"
       \/ in.current = NoAmount
       \/ Abs(Recommended(in) - in.current) * 100 < Threshold * in.current
=============================================================================
