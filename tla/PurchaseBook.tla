----------------------------- MODULE PurchaseBook -----------------------------
(***************************************************************************)
(* What procurement promises, without approvals, locks, retries and        *)
(* transactions: a purchase goes through its stages one by one, can be     *)
(* cancelled until it is ordered, and the goods received for it, each      *)
(* receipt once, add up to what was ordered and to the stock on hand.      *)
(***************************************************************************)
EXTENDS Naturals

CONSTANTS Purchase, Place, Key, Ordered

VARIABLES
  stage,   \* how far a purchase has come
  got,     \* units received for it
  onHand,  \* stock of every place
  booked   \* the keys of the receipts

vars == <<stage, got, onHand, booked>>

Init ==
  /\ stage = [p \in Purchase |-> "proposed"]
  /\ got = [p \in Purchase |-> 0]
  /\ onHand = [i \in Place |-> 0]
  /\ booked = {}

Following(s) ==
  CASE s = "proposed" -> "awaiting_approval"
    [] s = "awaiting_approval" -> "approved"
    [] s = "approved" -> "ordered"
    [] s = "ordered" -> "shipped"

Advance(p) ==
  /\ stage[p] \in {"proposed", "awaiting_approval", "approved", "ordered"}
  /\ stage' = [stage EXCEPT ![p] = Following(@)]
  /\ UNCHANGED <<got, onHand, booked>>

Cancel(p) ==
  /\ stage[p] \in {"proposed", "awaiting_approval", "approved"}
  /\ stage' = [stage EXCEPT ![p] = "cancelled"]
  /\ UNCHANGED <<got, onHand, booked>>

Receive(p, i, k) ==
  /\ stage[p] = "shipped"
  /\ k \notin booked
  /\ \E q \in 1 .. Ordered[p] - got[p] :
       /\ got' = [got EXCEPT ![p] = @ + q]
       /\ onHand' = [onHand EXCEPT ![i] = @ + q]
       /\ stage' = [stage EXCEPT ![p] =
            IF q = Ordered[p] - got[p] THEN "received" ELSE "shipped"]
  /\ booked' = booked \cup {k}

Next ==
  \E p \in Purchase : \/ Advance(p) \/ Cancel(p)
                      \/ \E i \in Place, k \in Key : Receive(p, i, k)

Spec == Init /\ [][Next]_vars
=============================================================================
