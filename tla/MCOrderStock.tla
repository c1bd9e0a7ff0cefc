---------------------------- MODULE MCOrderStock ----------------------------
(***************************************************************************)
(* Small instances of OrderStock: two inventory rows, two order ids.       *)
(*   stock     orders of two lines and of one line compete for three units *)
(*             while one of them is redelivered unchanged, changed, under  *)
(*             a new event id and with its event id used again, orders are *)
(*             dispatched and cancelled, and one key corrects two rows;    *)
(*   locks     two orders want the same two rows, in any order of lines;   *)
(*   lowstock  two orders and a correction, through all statuses;          *)
(*   reuse     redeliveries, with corrections of other amounts.            *)
(***************************************************************************)
EXTENDS OrderStock, TLC

CONSTANTS t1, t2, i1, i2, o1, o2, v1, v2, pA, pB, pC, la, lb, k1

MCLinesOf == pA :> {la, lb} @@ pB :> {la} @@ pC :> {lb}
MCQuantity == la :> 1 @@ lb :> 1
MCFirstStatus == pA :> "paid" @@ pB :> "pending" @@ pC :> "processing"
MCThreshold == i1 :> 1 @@ i2 :> 0
MCInitialOnHand == i1 :> 2 @@ i2 :> 1
MCCandidates == la :> {i1} @@ lb :> {i1, i2}

Hook(e, v, p) == [ext |-> e, evt |-> v, payload |-> p]
Adj(k, i, d) == [key |-> k, item |-> i, delta |-> d]

StockWebhooks == {Hook(o1, v1, pA), Hook(o1, v2, pA), Hook(o1, v1, pC),
                  Hook(o2, v2, pB)}
StockAdjustments == {Adj(k1, i1, -1), Adj(k1, i2, 1)}

PairWebhooks == {Hook(o1, v1, pA), Hook(o2, v2, pB)}
PairAdjustments == {Adj(k1, i1, -1)}

ReuseAdjustments == {Adj(k1, i1, 1), Adj(k1, i2, 1), Adj(k1, i1, -2)}

LocksWebhooks == {Hook(o1, v1, pA), Hook(o2, v2, pA)}
LocksCandidates == la :> {i1} @@ lb :> {i2}
LocksOnHand == i1 :> 2 @@ i2 :> 2
LocksAdjustments == {Adj(k1, i1, 1), Adj(k1, i2, -1)}

Symmetry == Permutations(Thread)
=============================================================================
