---------------------------- MODULE ReturnsProofs ----------------------------
(***************************************************************************)
(* Why no return is restocked twice and no refunded order is reopened, for *)
(* any number of announcements, returns, items and refunds.                *)
(***************************************************************************)
EXTENDS Returns, Sums

OrderStatus == {"dispatched", "delivered", "returned", "refunded"}
Version == [status : OrderStatus, version : Int]
Run == [at : {"queued", "read", "key", "row", "refunds", "order", "succeeded",
              "failed"},
        tries : Int, done : BOOLEAN, read : Version, adds : BOOLEAN]
Over == {"returned", "refunded"}

ReturnTypes ==
  /\ order \in Version /\ runs \in [Notice -> Run]
  /\ completed \in SUBSET Return /\ receipts \in SUBSET Return
  /\ DOMAIN stock = Article

\* What an attempt that has passed the adjustment knows of its receipt: it is
\* about to book it, there is one, or none is due.
Knows(n) ==
  /\ runs[n].adds => /\ runs[n].at \in {"refunds", "order"}
                     /\ ReturnOf[n] \in Sellable /\ ReturnOf[n] \notin receipts
  /\ runs[n].at \in {"refunds", "order"} /\ ~ runs[n].adds =>
       ReturnOf[n] \notin Sellable \/ ReturnOf[n] \in receipts
  /\ runs[n].at \in {"key", "row"} => ReturnOf[n] \in Sellable
  /\ runs[n].read.status = "returned" => order.status \in Over

\* The row lock: one attempt at a time adds to an inventory row.
Alone ==
  \A n, m \in Notice :
    /\ runs[n].adds /\ runs[m].adds
    /\ ArticleOf[ReturnOf[n]] = ArticleOf[ReturnOf[m]]
    => n = m

Booked ==
  /\ receipts = completed \cap Sellable
  /\ completed # {} => order.status \in Over

\* The sellable returns of an item that have been completed, and their units.
Restocked(a) == {r \in completed \cap Sellable : ArticleOf[r] = a}
Counted ==
  /\ IsFiniteSet(completed)
  /\ \A a \in Article : stock[a] = SumFunctionOnSet(Returned, Restocked(a))

ReturnsInv ==
  ReturnTypes /\ Booked /\ Counted /\ Alone /\ \A n \in Notice : Knows(n)

LEMMA BackTypes ==
  ASSUME NEW run \in Run, NEW at \in {"queued", "succeeded", "failed"}
  PROVE  /\ Back(run, at) \in Run /\ Back(run, at).at = at
         /\ Back(run, at).adds = FALSE /\ Back(run, at).read = Unread
         /\ Unread.status = "dispatched"
<1>1. Unread \in Version /\ Unread.status = "dispatched"
  BY DEF Version, OrderStatus, Unread
<1>2. Back(run, at) = [run EXCEPT !.at = at, !.done = FALSE, !.read = Unread,
                                  !.adds = FALSE]
  BY DEF Back
<1>3. [run EXCEPT !.at = at, !.done = FALSE, !.read = Unread, !.adds = FALSE] \in Run
  BY <1>1 DEF Run
<1> QED BY <1>1, <1>2, <1>3 DEF Run

\* A step of one run that books nothing and moves no order.
LEMMA RunPreserves ==
  ASSUME ReturnsInv, NEW n \in Notice, NEW run \in Run,
         runs' = [runs EXCEPT ![n] = run],
         run.adds => /\ run.at \in {"refunds", "order"}
                     /\ ReturnOf[n] \in Sellable /\ ReturnOf[n] \notin receipts
                     /\ \A m \in Notice \ {n} : runs[m].adds =>
                          ArticleOf[ReturnOf[m]] # ArticleOf[ReturnOf[n]],
         run.at \in {"refunds", "order"} /\ ~ run.adds =>
           ReturnOf[n] \notin Sellable \/ ReturnOf[n] \in receipts,
         run.at \in {"key", "row"} => ReturnOf[n] \in Sellable,
         run.read.status = "returned" => order.status \in Over,
         UNCHANGED <<order, completed, receipts, stock>>
  PROVE  ReturnsInv'
<1>1. runs'[n] = run /\ \A m \in Notice \ {n} : runs'[m] = runs[m]
  BY DEF ReturnsInv, ReturnTypes
<1>2. ReturnTypes' /\ Booked'
  BY DEF ReturnsInv, ReturnTypes, Booked
<1>0. Counted'
  BY DEF ReturnsInv, Counted, Restocked
<1>3. Alone'
  BY <1>1 DEF ReturnsInv, Alone
<1>4. \A m \in Notice : Knows(m)'
  BY <1>1 DEF ReturnsInv, Knows
<1> QED BY <1>0, <1>2, <1>3, <1>4 DEF ReturnsInv

\* A run that goes back to the queue or is over.
LEMMA BackPreserves ==
  ASSUME ReturnsInv, NEW n \in Notice, NEW run \in Run,
         runs' = [runs EXCEPT ![n] = run],
         run.at \in {"queued", "succeeded", "failed"}, ~ run.adds,
         run.read.status = "dispatched",
         UNCHANGED <<order, completed, receipts, stock>>
  PROVE  ReturnsInv'
BY RunPreserves

LEMMA AttemptEndsPreserves ==
  ASSUME ReturnsInv, NEW n \in Notice, AttemptEnds(n),
         UNCHANGED <<order, completed, receipts, stock>>
  PROVE  ReturnsInv'
<1> DEFINE at == IF runs[n].tries + 1 >= MaxAttempts THEN "failed" ELSE "queued"
           run == [Back(runs[n], at) EXCEPT !.tries = runs[n].tries + 1]
<1>1. runs[n] \in Run /\ runs[n].tries + 1 \in Int
  BY DEF ReturnsInv, ReturnTypes, Run
<1>2. runs' = [runs EXCEPT ![n] = run]
  BY DEF AttemptEnds
<1>3. at \in {"queued", "succeeded", "failed"}
  OBVIOUS
<1> HIDE DEF at
<1>4. /\ run \in Run /\ run.at = at /\ run.adds = FALSE
      /\ run.read.status = "dispatched"
  <2>1. /\ Back(runs[n], at).at = at /\ Back(runs[n], at).adds = FALSE
        /\ Back(runs[n], at).read.status = "dispatched"
        /\ Back(runs[n], at) \in Run
    BY <1>1, <1>3, BackTypes
  <2> QED BY <1>1, <2>1 DEF Run
<1> HIDE DEF run
<1> QED BY <1>2, <1>3, <1>4, BackPreserves

\* Reading, looking up, locking and checking.
LEMMA ReadPreserves ==
  ASSUME ReturnsInv, NEW n \in Notice, ReadReturn(n)
  PROVE  ReturnsInv'
<1> DEFINE done == ReturnOf[n] \in completed
           run == [runs[n] EXCEPT !.at = "read", !.done = done]
<1>1. /\ runs[n] \in Run /\ runs[n].at = "queued" /\ ~ runs[n].adds
      /\ runs[n].read.status = "returned" => order.status \in Over
      /\ UNCHANGED <<order, completed, receipts, stock>>
  BY DEF ReadReturn, ReturnsInv, ReturnTypes, Knows
<1>2. runs' = [runs EXCEPT ![n] = run]
  BY DEF ReadReturn, ReturnsInv, ReturnTypes
<1>3. done \in BOOLEAN
  OBVIOUS
<1> HIDE DEF done
<1>4. run \in Run /\ run.at = "read" /\ ~ run.adds /\ run.read = runs[n].read
  BY <1>1, <1>3 DEF Run
<1> HIDE DEF run
<1> QED BY <1>1, <1>2, <1>4, RunPreserves

LEMMA ReadOrderPreserves ==
  ASSUME ReturnsInv, NEW n \in Notice, ReadOrder(n)
  PROVE  ReturnsInv'
<1>1. /\ runs[n] \in Run /\ order \in Version
      /\ UNCHANGED <<order, completed, receipts, stock>>
  BY DEF ReadOrder, ReturnsInv, ReturnTypes
<1>2. CASE Returned[ReturnOf[n]] > Ordered[ArticleOf[ReturnOf[n]]]
  <2>1. runs' = [runs EXCEPT ![n] = Back(runs[n], "failed")]
    BY <1>2 DEF ReadOrder
  <2> QED BY <1>1, <2>1, BackTypes, BackPreserves
<1>3. CASE ~ (Returned[ReturnOf[n]] > Ordered[ArticleOf[ReturnOf[n]]])
  <2> DEFINE at == IF ReturnOf[n] \in Sellable THEN "key" ELSE "refunds"
             run == [runs[n] EXCEPT !.at = at, !.read = order]
  <2>1. runs' = [runs EXCEPT ![n] = run] /\ runs[n].at = "read"
    BY <1>3 DEF ReadOrder, ReturnsInv, ReturnTypes
  <2>2. ~ runs[n].adds
    BY <2>1 DEF ReturnsInv, Knows
  <2>3. /\ at \in {"key", "refunds"} /\ (at = "key" <=> ReturnOf[n] \in Sellable)
    OBVIOUS
  <2> HIDE DEF at
  <2>4. /\ run \in Run /\ run.at = at /\ run.read = order /\ ~ run.adds
    BY <1>1, <2>2, <2>3 DEF Run
  <2> HIDE DEF run
  <2> QED BY <1>1, <2>1, <2>3, <2>4, RunPreserves DEF Over
<1> QED BY <1>2, <1>3

LEMMA AdjustPreserves ==
  ASSUME ReturnsInv, NEW n \in Notice, LookupReceipt(n) \/ LockRow(n)
  PROVE  ReturnsInv'
<1>1. /\ runs[n] \in Run /\ runs[n].at \in {"key", "row"} /\ Knows(n)
      /\ UNCHANGED <<order, completed, receipts, stock>>
  BY DEF LookupReceipt, LockRow, ReturnsInv, ReturnTypes
<1>2. ReturnOf[n] \in Sellable /\ ~ runs[n].adds
  BY <1>1 DEF Knows
<1>3. CASE LookupReceipt(n)
  <2> DEFINE at == IF ReturnOf[n] \in receipts THEN "refunds" ELSE "row"
             run == [runs[n] EXCEPT !.at = at]
  <2>1. runs' = [runs EXCEPT ![n] = run]
    BY <1>3 DEF LookupReceipt, KeyTaken, ReturnsInv, ReturnTypes
  <2>2. at \in {"refunds", "row"} /\ (at = "refunds" <=> ReturnOf[n] \in receipts)
    OBVIOUS
  <2> HIDE DEF at
  <2>3. run \in Run /\ run.at = at /\ ~ run.adds /\ run.read = runs[n].read
    BY <1>1, <1>2, <2>2 DEF Run
  <2> HIDE DEF run
  <2> QED BY <1>1, <1>2, <2>1, <2>2, <2>3, RunPreserves DEF Knows
<1>4. CASE LockRow(n) /\ KeyTaken(n)
  BY <1>1, <1>4, AttemptEndsPreserves DEF LockRow
<1>5. CASE LockRow(n) /\ ~ KeyTaken(n)
  <2> DEFINE run == [runs[n] EXCEPT !.at = "refunds", !.adds = TRUE]
  <2>1. runs' = [runs EXCEPT ![n] = run]
    BY <1>5 DEF LockRow, ReturnsInv, ReturnTypes
  <2>2. run \in Run /\ run.at = "refunds" /\ run.adds /\ run.read = runs[n].read
    BY <1>1 DEF Run
  <2>3. \A m \in Notice \ {n} :
          runs[m].adds => ArticleOf[ReturnOf[m]] # ArticleOf[ReturnOf[n]]
    BY <1>5 DEF LockRow, LocksRow, ReturnsInv, Knows
  <2>4. ReturnOf[n] \notin receipts
    BY <1>5 DEF KeyTaken
  <2> HIDE DEF run
  <2> QED BY <1>1, <1>2, <2>1, <2>2, <2>3, <2>4, RunPreserves DEF Knows
<1> QED BY <1>3, <1>4, <1>5

LEMMA RefundCheckPreserves ==
  ASSUME ReturnsInv, NEW n \in Notice, CheckRefunds(n)
  PROVE  ReturnsInv'
<1>1. /\ runs[n] \in Run /\ runs[n].at = "refunds" /\ Knows(n)
      /\ UNCHANGED <<order, completed, receipts, stock>>
  BY DEF CheckRefunds, ReturnsInv, ReturnTypes
<1>2. CASE Refunded > OrderTotal
  <2>1. runs' = [runs EXCEPT ![n] = Back(runs[n], "failed")]
    BY <1>2 DEF CheckRefunds
  <2> QED BY ZenonT(40), <1>1, <2>1, BackTypes, BackPreserves
<1>3. CASE ~ (Refunded > OrderTotal)
  <2> DEFINE run == [runs[n] EXCEPT !.at = "order"]
  <2>1. runs' = [runs EXCEPT ![n] = run]
    BY <1>3 DEF CheckRefunds
  <2>2. /\ run \in Run /\ run.at = "order" /\ run.adds = runs[n].adds
        /\ run.read = runs[n].read
    BY <1>1 DEF Run
  <2>3. \A m \in Notice \ {n} : runs[n].adds /\ runs[m].adds =>
          ArticleOf[ReturnOf[m]] # ArticleOf[ReturnOf[n]]
    BY DEF ReturnsInv, Alone
  <2> HIDE DEF run
  <2> QED BY <1>1, <2>1, <2>2, <2>3, RunPreserves DEF Knows
<1> QED BY <1>2, <1>3

\* The status and version that were read are still those of the order.
LEMMA CompletePreserves ==
  ASSUME ReturnsInv, NEW n \in Notice, CompleteReturn(n)
  PROVE  ReturnsInv'
<1> DEFINE r == ReturnOf[n]
           run == Back(runs[n], "succeeded")
<1>1. /\ runs[n] \in Run /\ runs[n].at = "order" /\ r \in Return
      /\ runs' = [runs EXCEPT ![n] = run]
      /\ completed' = completed \cup {r}
      /\ receipts' = IF runs[n].adds THEN receipts \cup {r} ELSE receipts
  BY ReturnsAssumption DEF CompleteReturn, ReturnsInv, ReturnTypes
<1>2. run \in Run /\ run.at = "succeeded" /\ ~ run.adds /\ run.read.status = "dispatched"
  BY <1>1, BackTypes
<1> HIDE DEF run
<1>3. runs'[n] = run /\ \A m \in Notice \ {n} : runs'[m] = runs[m]
  BY <1>1 DEF ReturnsInv, ReturnTypes
<1>4. order' \in Version /\ order'.status \in Over
  <2>1. CASE runs[n].read.status = "returned"
    <3>1. order' = order /\ order.status \in Over
      BY <2>1 DEF CompleteReturn, ReturnsInv, Knows
    <3> QED BY <3>1 DEF ReturnsInv, ReturnTypes
  <2>2. CASE runs[n].read.status # "returned"
    <3>1. order' = Moved(order, "returned") /\ order \in Version
      BY <2>2 DEF CompleteReturn, ReturnsInv, ReturnTypes
    <3> QED BY <3>1 DEF Moved, Version, OrderStatus, Over
  <2> QED BY <2>1, <2>2
<1>5. ReturnTypes'
  <2>1. DOMAIN stock' = Article
    BY DEF CompleteReturn, ReturnsInv, ReturnTypes
  <2> QED BY <1>1, <1>2, <1>4, <2>1 DEF ReturnsInv, ReturnTypes
<1>6. Booked'
  <2>1. r \in Sellable <=> (runs[n].adds \/ r \in receipts)
    BY <1>1 DEF ReturnsInv, Knows, Booked
  <2> QED BY <1>1, <1>4, <2>1 DEF ReturnsInv, Booked
<1>0. Counted'
  <2>1. IsFiniteSet(completed')
    BY <1>1, FS_AddElement DEF ReturnsInv, Counted
  <2>2. ASSUME NEW a \in Article
        PROVE  stock'[a] = SumFunctionOnSet(Returned, Restocked(a)')
    <3>1. /\ IsFiniteSet(Restocked(a))
          /\ \A x \in Restocked(a) : Returned[x] \in Int
      BY ReturnsAssumption, FS_Subset DEF ReturnsInv, ReturnTypes, Counted, Restocked
    <3>2. stock[a] = SumFunctionOnSet(Returned, Restocked(a))
      BY DEF ReturnsInv, Counted
    <3>3. CASE runs[n].adds /\ ArticleOf[r] = a
      <4>1. r \in Sellable /\ r \notin completed
        BY <3>3 DEF ReturnsInv, Knows, Booked
      <4>2. Restocked(a)' = Restocked(a) \cup {r} /\ r \notin Restocked(a)
        BY <1>1, <3>3, <4>1 DEF Restocked
      <4>3. stock'[a] = stock[a] + Returned[r]
        BY <3>3 DEF CompleteReturn, ReturnsInv, ReturnTypes
      <4>4. Returned[r] \in Int /\ SumFunctionOnSet(Returned, Restocked(a)) \in Int
        BY <1>1, <3>1, ReturnsAssumption, SumInt
      <4>5. SumFunctionOnSet(Returned, Restocked(a) \cup {r}) =
              Returned[r] + SumFunctionOnSet(Returned, Restocked(a))
        BY <3>1, <4>2, <4>4, SumAdd
      <4> QED BY <3>2, <4>2, <4>3, <4>4, <4>5
    <3>4. CASE ~ (runs[n].adds /\ ArticleOf[r] = a)
      <4>1. Restocked(a)' = Restocked(a)
        BY <1>1, <3>4 DEF Restocked, ReturnsInv, Knows, Booked
      <4>2. stock'[a] = stock[a]
        BY <3>4 DEF CompleteReturn, ReturnsInv, ReturnTypes
      <4> QED BY <3>2, <4>1, <4>2
    <3> QED BY <3>3, <3>4
  <2> QED BY <2>1, <2>2 DEF Counted
<1>7. Alone'
  BY <1>2, <1>3 DEF ReturnsInv, Alone
<1>8. ASSUME NEW m \in Notice PROVE Knows(m)'
  <2>1. CASE m = n
    BY <1>2, <1>3, <2>1 DEF Knows
  <2>2. CASE m # n
    <3>1. runs'[m] = runs[m] /\ Knows(m) /\ receipts \subseteq receipts'
      BY <1>1, <1>3, <2>2 DEF ReturnsInv
    <3>2. runs[m].adds => ReturnOf[m] \notin receipts'
      BY <1>1, <2>2 DEF ReturnsInv, Alone, Knows
    <3> QED BY <1>4, <3>1, <3>2 DEF Knows
  <2> QED BY <2>1, <2>2
<1> QED BY <1>0, <1>5, <1>6, <1>7, <1>8 DEF ReturnsInv

\* A person moves the order; one that has been returned stays so or is refunded.
LEMMA MovePreserves ==
  ASSUME ReturnsInv, NEW status \in DOMAIN After, MoveOrder(status)
  PROVE  ReturnsInv'
<1>1. /\ UNCHANGED <<runs, completed, receipts, stock>>
      /\ order \in Version /\ status \in After[order.status]
      /\ order' = Moved(order, status)
  BY DEF MoveOrder, ReturnsInv, ReturnTypes
<1>2. status \in OrderStatus /\ (order.status \in Over => status \in Over)
  BY <1>1 DEF After, Version, OrderStatus, Over
<1>3. order' \in Version /\ (order.status \in Over => order'.status \in Over)
  BY <1>1, <1>2 DEF Moved, Version
<1> QED BY <1>1, <1>3
        DEF ReturnsInv, ReturnTypes, Booked, Counted, Restocked, Alone, Knows

LEMMA OthersPreserve ==
  ASSUME ReturnsInv, UNCHANGED <<order, runs, completed, receipts, stock>>
  PROVE  ReturnsInv'
BY DEF ReturnsInv, ReturnTypes, Booked, Counted, Restocked, Alone, Knows

(***************************************************************************)
(* The invariant and what follows from it                                  *)
(***************************************************************************)

\* A sellable return has its receipt movement exactly when it is COMPLETED, and
\* then its order is returned or refunded.
THEOREM ReturnsInvariant == ReturnsSpec => []ReturnsInv
<1>1. ReturnsInit => ReturnsInv
  <2> SUFFICES ASSUME ReturnsInit PROVE ReturnsInv
    OBVIOUS
  <2>1. ReturnTypes
    BY DEF ReturnsInit, ReturnTypes, Run, Version, OrderStatus, Unread
  <2>2. Booked /\ Alone /\ \A n \in Notice : Knows(n)
    BY DEF ReturnsInit, Booked, Alone, Knows, Unread
  <2>3. Counted
    <3>1. \A a : Restocked(a) = {}
      BY DEF ReturnsInit, Restocked
    <3> QED BY <3>1, SumEmpty, FS_EmptySet DEF ReturnsInit, Counted
  <2> QED BY <2>1, <2>2, <2>3 DEF ReturnsInv
<1>2. ReturnsInv /\ [ReturnsNext]_returnVars => ReturnsInv'
  <2> SUFFICES ASSUME ReturnsInv, [ReturnsNext]_returnVars PROVE ReturnsInv'
    OBVIOUS
  <2>1. ASSUME NEW n \in Notice, ReadReturn(n) \/ ReadOrder(n) PROVE ReturnsInv'
    BY <2>1, ReadPreserves, ReadOrderPreserves
  <2>2. ASSUME NEW n \in Notice, LookupReceipt(n) \/ LockRow(n) PROVE ReturnsInv'
    BY <2>2, AdjustPreserves
  <2>3. ASSUME NEW n \in Notice, CheckRefunds(n) PROVE ReturnsInv'
    BY <2>3, RefundCheckPreserves
  <2>4. ASSUME NEW n \in Notice, CompleteReturn(n) PROVE ReturnsInv'
    BY <2>4, CompletePreserves
  <2>5. ASSUME NEW n \in Notice, ReturnFails(n) PROVE ReturnsInv'
    BY <2>5, AttemptEndsPreserves DEF ReturnFails
  <2>6. ASSUME NEW n \in Notice, ReturnCrash(n) PROVE ReturnsInv'
    <3>1. /\ runs' = [runs EXCEPT ![n] = Back(runs[n], "queued")] /\ runs[n] \in Run
          /\ UNCHANGED <<order, completed, receipts, stock>>
      BY <2>6 DEF ReturnCrash, ReturnsInv, ReturnTypes
    <3> QED BY <3>1, BackTypes, BackPreserves
  <2>7. ASSUME NEW status \in DOMAIN After, MoveOrder(status) PROVE ReturnsInv'
    BY <2>7, MovePreserves
  <2>8. ASSUME NEW f \in Refund, RequestRefund(f) \/ DecideRefund(f) PROVE ReturnsInv'
    BY <2>8, OthersPreserve DEF RequestRefund, DecideRefund
  <2>9. CASE UNCHANGED returnVars
    BY <2>9, OthersPreserve DEF returnVars
  <2> QED BY <2>1, <2>2, <2>3, <2>4, <2>5, <2>6, <2>7, <2>8, <2>9 DEF ReturnsNext
<1> QED BY <1>1, <1>2, PTL DEF ReturnsSpec

\* The units of the completed sellable returns are in stock exactly once, and
\* the order of a completed return is returned or refunded.
THEOREM ReturnsAreReconciled == ReturnsSpec => []ReturnsReconciled
<1>1. ReturnsInv => ReturnsReconciled
  BY DEF ReturnsInv, Booked, Counted, Restocked, ReturnsReconciled, Over
<1> QED BY <1>1, ReturnsInvariant, PTL

\* No reconciliation and no person moves a refunded order.
THEOREM RefundsStay == ReturnsSpec => OrdersNeverReopen
<1>1. ReturnsInv /\ [ReturnsNext]_returnVars
      => [order.status = "refunded" => order'.status = "refunded"]_returnVars
  <2> SUFFICES ASSUME ReturnsInv, ReturnsNext, order.status = "refunded"
               PROVE  order'.status = "refunded"
    OBVIOUS
  <2>1. ASSUME NEW n \in Notice, CompleteReturn(n) PROVE order' = order
    <3>1. CASE runs[n].read.status = "returned"
      BY <2>1, <3>1 DEF CompleteReturn
    <3>2. CASE runs[n].read.status # "returned"
      <4>1. runs[n].read = order /\ "returned" \in After[order.status]
        BY <2>1, <3>2 DEF CompleteReturn, ReadIsCurrent, Transition
      <4> QED BY <4>1 DEF After
    <3> QED BY <3>1, <3>2
  <2>2. ASSUME NEW status \in DOMAIN After, MoveOrder(status) PROVE FALSE
    BY <2>2 DEF MoveOrder, After
  <2>3. \/ UNCHANGED order
        \/ \E n \in Notice : CompleteReturn(n)
        \/ \E status \in DOMAIN After : MoveOrder(status)
    BY DEF ReturnsNext, ReadReturn, ReadOrder, LookupReceipt, LockRow, CheckRefunds, ReturnFails,
           ReturnCrash, RequestRefund, DecideRefund
  <2> QED BY <2>1, <2>2, <2>3
<1> QED BY <1>1, ReturnsInvariant, PTL DEF ReturnsSpec, OrdersNeverReopen
=============================================================================
